---- MODULE Spec2Model ----
(***************************************************************************)
(* A model of discord-chat-node: the conversation-history store            *)
(* (src/utils/historyManager.js), the commands and handlers that mutate    *)
(* it, the AI service router (src/aiServiceProvider.js) and the Gemini     *)
(* history formatting (src/services/geminiService.js).                     *)
(***************************************************************************)
EXTENDS Integers, Sequences, FiniteSets, TLC

VARIABLES
    maxHistorySize,       \* config.MAX_HISTORY_SIZE: -1 unlimited, 0 one-shot, N > 0 bounded
    conversationHistory,  \* historyManager's Map: channelId -> array of turns
    file,                 \* the history file at config.HISTORY_FILE_PATH
    last,                 \* record of the last store operation and what it returned
    appended,             \* per channel, the turns passed to addMessageToHistory so far
    snapshot,             \* the in-memory mapping held when a round trip started
    config,               \* the fields of config.js the AI services read
    currentService,       \* aiServiceProvider's currentService: "null", "ollama" or "gemini"
    ollamaClient,         \* ollamaService's ollamaClient is set
    genAI,                \* geminiService's genAI is set
    geminiChatModel,      \* geminiService's geminiChatModel is set
    pc,                   \* where the process is: main.js, logging in, ready, exited
    initCalls,            \* completed aiServiceProvider.initialize() calls
    backendCalls,         \* calls forwarded to a service's chat or describeImage
    call,                 \* record of the last router call and what it returned
    messages,             \* the array passed to formatMessagesForGemini
    geminiMessages,       \* the array formatMessagesForGemini returned
    formatted,            \* formatMessagesForGemini has returned
    userInfo,             \* userInfoManager's userInfo: user id -> profile
    userInfoFile,         \* data/usersInfo.json
    turn,                 \* the inbound message the message handler is working on
    outbox,               \* what the bot has sent to Discord, oldest first
    chatArgs,             \* the arguments of the service call being followed
    request,              \* what that call transmitted to the backend
    reply,                \* how that call settled
    splitText,            \* splitMessage's text argument
    maxLength,            \* splitMessage's maxLength argument
    chunks,               \* the array splitMessage returned
    splitDone,            \* splitMessage has returned
    aiResponse,           \* the completion the handler got from the provider
    messageParts,         \* the handler's segments of the completion
    deliverPc,            \* where the handler is between the completion and its return
    partIndex,            \* the delivery loop's i
    pendingChunks,        \* chunks of segment i not sent yet
    sends,                \* the handler's calls of channel.send and its delays, in order
    userCooldowns,        \* messageCreateHandler's userCooldowns Set
    inbound,              \* the MessageCreate events observed, oldest first, and where each handler is
    isProactiveMessagingActive, \* proactiveMessaging's flag
    proactiveTimer,       \* proactiveMessaging's proactiveTimer: null, or a handle of a pending or fired timeout
    pendingTimers,        \* the proactive timeouts set and neither cleared nor fired: their minutes
    fires,                \* the sendProactiveMessage calls in flight
    fireCount,            \* proactive timeouts fired so far
    proactiveSends,       \* the target.send calls of proactive fires, oldest first
    saveIntervalId,       \* historyManager's periodic save interval is set
    intervals,            \* the setInterval timers of the history store that are live
    schedLast             \* the last step of the scheduler or of shutdown

storeVars == <<maxHistorySize, conversationHistory, file, last, appended, snapshot>>

routerVars ==
    <<config, currentService, ollamaClient, genAI, geminiChatModel, pc,
      initCalls, backendCalls, call>>

formatVars == <<messages, geminiMessages, formatted>>

profileVars == <<userInfo, userInfoFile, turn, outbox>>

backendVars == <<chatArgs, request, reply>>

splitVars == <<splitText, maxLength, chunks, splitDone>>

deliverVars == <<aiResponse, messageParts, deliverPc, partIndex, pendingChunks, sends>>

turnsVars == <<userCooldowns, inbound>>

schedVars ==
    <<isProactiveMessagingActive, proactiveTimer, pendingTimers, fires, fireCount,
      proactiveSends, saveIntervalId, intervals, schedLast>>

pipelineVars ==
    <<profileVars, backendVars, splitVars, deliverVars, turnsVars, schedVars>>

offProfile == <<backendVars, splitVars, deliverVars, turnsVars, schedVars>>

offBackend == <<profileVars, splitVars, deliverVars, turnsVars, schedVars>>

offSplit == <<profileVars, backendVars, deliverVars, turnsVars, schedVars>>

offDeliver == <<profileVars, backendVars, splitVars, turnsVars, schedVars>>

offTurns == <<profileVars, backendVars, splitVars, deliverVars, schedVars>>

offSched == <<profileVars, backendVars, splitVars, deliverVars, turnsVars>>

vars == <<storeVars, routerVars, formatVars, pipelineVars>>

----------------------------------------------------------------------------
(* Bounds of the model.                                                    *)

\* longest history enumerated in a history file, and the cap on growth under
\* unlimited retention
MaxLen == 2
\* largest positive MAX_HISTORY_SIZE enumerated
MaxN == 2
\* number of addMessageToHistory calls per channel in the append-only runs
MaxAppends == 3
\* number of aiServiceProvider.initialize() calls when the router is driven
\* through its exported functions
MaxInitCalls == 2
\* number of calls the router forwards to a service
MaxBackendCalls == 2
\* longest array passed to formatMessagesForGemini
MaxMsgs == 5

----------------------------------------------------------------------------
(* Conversation ids and turns.                                             *)

\* a guild channel id and a synthesized private-chat id (dm_<userId>)
Channels == {"c1", "dm_1"}

\* the user turn the message handler stores (messageCreateHandler.js:368-371)
UserTurn == [role |-> "user", content |-> <<"a">>]
\* the assistant turn the message handler stores (messageCreateHandler.js:372-375)
AssistantTurn == [role |-> "assistant", content |-> <<"b">>]
\* the turn a proactive fire stores (proactiveMessaging.js:149-153)
ProactiveTurn == [role |-> "assistant", content |-> <<"b">>, timestamp |-> <<"t">>]

Turns == {UserTurn, AssistantTurn, ProactiveTurn}

RECURSIVE SeqsUpTo(_, _)
SeqsUpTo(S, n) ==
    IF n = 0 THEN {<<>>}
    ELSE LET shorter == SeqsUpTo(S, n - 1)
         IN shorter \cup {Append(s, x) : s \in {t \in shorter : Len(t) = n - 1}, x \in S}

\* a Map with no entries
EmptyMap == [k \in {} |-> <<>>]

MapHas(map, key) == key \in DOMAIN map

MapSet(map, key, value) ==
    [k \in DOMAIN map \cup {key} |-> IF k = key THEN value ELSE map[k]]

MapDelete(map, key) == [k \in DOMAIN map \ {key} |-> map[k]]

----------------------------------------------------------------------------
(* The history file.  A file is missing, unreadable (a directory at the    *)
(* path or no permission: reads and writes both fail) or holds text.  Text *)
(* is either not JSON ("invalid") or a JSON value; `props` holds the own   *)
(* enumerable properties Object.entries would list (for an array, its      *)
(* indices as keys).                                                       *)

MissingFile == [status |-> "missing", kind |-> "none", props |-> EmptyMap]
UnreadableFile == [status |-> "unreadable", kind |-> "none", props |-> EmptyMap]
TextFile(kind, props) == [status |-> "ok", kind |-> kind, props |-> props]

\* fs.existsSync
ExistsSync(f) == f.status # "missing"

\* fs.readFileSync followed by JSON.parse: throws on an unreadable file and on
\* text that is not JSON
ReadAndParse(f) ==
    IF f.status # "ok" \/ f.kind = "invalid"
    THEN [threw |-> TRUE, kind |-> "none", props |-> EmptyMap]
    ELSE [threw |-> FALSE, kind |-> f.kind, props |-> f.props]

\* Object.entries(value): a TypeError for null, no entries for a number, the
\* indexed elements of an array, the properties of an object
ObjectEntries(json) ==
    CASE json.kind = "null" -> [threw |-> TRUE, entries |-> EmptyMap]
      [] json.kind = "number" -> [threw |-> FALSE, entries |-> EmptyMap]
      [] OTHER -> [threw |-> FALSE, entries |-> json.props]

\* JSON.stringify(Object.fromEntries(map), null, 2): the text of a JSON object
\* with one property per Map entry
StringifyMap(map) == TextFile("object", map)

\* loadHistory: the Map it leaves in conversationHistory, and whether it raised
LoadHistory(f) ==
    IF ExistsSync(f)
    THEN LET parsed == ReadAndParse(f)
             listed == ObjectEntries(parsed)
         IN IF parsed.threw \/ listed.threw
            THEN [threw |-> FALSE, map |-> EmptyMap]
            ELSE [threw |-> FALSE, map |-> listed.entries]
    ELSE [threw |-> FALSE, map |-> EmptyMap]

\* what fs.writeFileSync can do: write the file, or fail (the file is then
\* left as it was); a path that cannot be read cannot be written either
WriteOutcomes == {"ok", "fail"}

\* saveHistory with the early return taken whenever the Map is empty, whether
\* or not a file exists
SaveHistorySkipsWhenEmpty(map, f, outcome) ==
    IF DOMAIN map = {}
    THEN [file |-> f, saved |-> "skipped", threw |-> FALSE]
    ELSE IF f.status = "unreadable" \/ outcome = "fail"
    THEN [file |-> f, saved |-> "failed", threw |-> FALSE]
    ELSE [file |-> StringifyMap(map), saved |-> "written", threw |-> FALSE]

\* saveHistory without its try/catch: a failed write reaches the caller
SaveHistoryUncaught(map, f, outcome) ==
    IF DOMAIN map = {} /\ ~ExistsSync(f)
    THEN [file |-> f, saved |-> "skipped", threw |-> FALSE]
    ELSE IF f.status = "unreadable" \/ outcome = "fail"
    THEN [file |-> f, saved |-> "failed", threw |-> TRUE]
    ELSE [file |-> StringifyMap(map), saved |-> "written", threw |-> FALSE]

\* saveHistory: the file it leaves, what happened ("skipped": the early return,
\* "written", "failed") and whether it raised
SaveHistory(map, f, outcome) ==
    IF DOMAIN map = {} /\ ~ExistsSync(f)
    THEN [file |-> f, saved |-> "skipped", threw |-> FALSE]
    ELSE IF f.status = "unreadable" \/ outcome = "fail"
    THEN [file |-> f, saved |-> "failed", threw |-> FALSE]
    ELSE [file |-> StringifyMap(map), saved |-> "written", threw |-> FALSE]

\* getChannelHistory
GetChannelHistory(map, channelId) ==
    IF MapHas(map, channelId) THEN map[channelId] ELSE <<>>

\* updateChannelHistory
UpdateChannelHistory(map, channelId, history) == MapSet(map, channelId, history)

\* Array.prototype.slice(start) for 0 <= start
SliceFrom(s, start) == SubSeq(s, start + 1, Len(s))

\* Array.prototype.slice(0, end)
SliceTo(s, end) == SubSeq(s, 1, IF end < Len(s) THEN end ELSE Len(s))

\* addMessageToHistory pruning from the wrong end (slice(0, size))
AddMessageKeepsOldest(map, size, channelId, messageObject) ==
    IF size = 0
    THEN IF MapHas(map, channelId) THEN MapDelete(map, channelId) ELSE map
    ELSE LET pushed == Append(GetChannelHistory(map, channelId), messageObject)
             history == IF size > 0 /\ Len(pushed) > size
                        THEN SliceTo(pushed, size)
                        ELSE pushed
         IN UpdateChannelHistory(map, channelId, history)

\* addMessageToHistory whose one-shot branch returns without deleting the entry
AddMessageOneShotKeepsEntry(map, size, channelId, messageObject) ==
    IF size = 0
    THEN map
    ELSE LET pushed == Append(GetChannelHistory(map, channelId), messageObject)
             history == IF size > 0 /\ Len(pushed) > size
                        THEN SliceFrom(pushed, Len(pushed) - size)
                        ELSE pushed
         IN UpdateChannelHistory(map, channelId, history)

\* addMessageToHistory: the Map after the call
AddMessageToHistory(map, size, channelId, messageObject) ==
    IF size = 0
    THEN IF MapHas(map, channelId) THEN MapDelete(map, channelId) ELSE map
    ELSE LET pushed == Append(GetChannelHistory(map, channelId), messageObject)
             history == IF size > 0 /\ Len(pushed) > size
                        THEN SliceFrom(pushed, Len(pushed) - size)
                        ELSE pushed
         IN UpdateChannelHistory(map, channelId, history)

\* clearChannelHistory leaving the write to the periodic save
ClearWithoutSave(map, f, channelId, outcome) ==
    IF MapHas(map, channelId)
    THEN [map |-> MapDelete(map, channelId), file |-> f, saved |-> "none", ret |-> TRUE]
    ELSE [map |-> map, file |-> f, saved |-> "none", ret |-> FALSE]

\* clearChannelHistory: the Map and file after the call, and the value returned
ClearChannelHistory(map, f, channelId, outcome) ==
    IF MapHas(map, channelId)
    THEN LET cleared == MapDelete(map, channelId)
             saved == SaveHistory(cleared, f, outcome)
         IN [map |-> cleared, file |-> saved.file, saved |-> saved.saved, ret |-> TRUE]
    ELSE [map |-> map, file |-> f, saved |-> "none", ret |-> FALSE]

\* the addhistory command once the fetched messages have been sorted, filtered
\* and mapped to user turns (recentUserMessages): the Map and file after it
AddHistoryExecute(map, f, size, channelId, fetchOk, recentUserMessages, outcome) ==
    LET unchanged == [map |-> map, file |-> f, saved |-> "none"]
        existingHistory == GetChannelHistory(map, channelId)
        existingContents == {existingHistory[i].content : i \in DOMAIN existingHistory}
        newUniqueMessages ==
            SelectSeq(recentUserMessages, LAMBDA m : m.content \notin existingContents)
        joined == newUniqueMessages \o existingHistory
        combinedHistory == IF size > 0 THEN SliceTo(joined, size) ELSE joined
        updated == UpdateChannelHistory(map, channelId, combinedHistory)
        saved == SaveHistory(updated, f, outcome)
    IN IF size = 0 \/ ~fetchOk THEN unchanged
       ELSE IF Len(recentUserMessages) = 0 THEN unchanged
       ELSE IF Len(newUniqueMessages) = 0 THEN unchanged
       ELSE [map |-> updated, file |-> saved.file, saved |-> saved.saved]

\* the block storing the assistant turn before the user turn
StoreAssistantFirst(map, f, size, channelId, userTurn, assistantTurn, outcome) ==
    LET withAssistant == AddMessageToHistory(map, size, channelId, assistantTurn)
        withBoth == AddMessageToHistory(withAssistant, size, channelId, userTurn)
        saved == SaveHistory(withBoth, f, outcome)
    IN [map |-> withBoth, file |-> saved.file, saved |-> saved.saved]

\* the synchronous block of the message handler that stores one exchange:
\* the user turn, the assistant turn, then saveHistory
StoreExchange(map, f, size, channelId, userTurn, assistantTurn, outcome) ==
    LET withUser == AddMessageToHistory(map, size, channelId, userTurn)
        withBoth == AddMessageToHistory(withUser, size, channelId, assistantTurn)
        saved == SaveHistory(withBoth, f, outcome)
    IN [map |-> withBoth, file |-> saved.file, saved |-> saved.saved]

----------------------------------------------------------------------------
(* The states a run can start from.                                        *)

\* MAX_HISTORY_SIZE as configured: unlimited, one-shot or Bounded(N)
HistorySizes == {-1, 0} \cup (1 .. MaxN)

Histories == SeqsUpTo(Turns, MaxLen)

\* every mapping from some of the channels to a history
ChannelMaps ==
    UNION {[S -> Histories] : S \in SUBSET Channels}

\* a JSON array holding one history: Object.entries lists it under key "0"
ArrayProps == {EmptyMap, [k \in {"0"} |-> <<UserTurn>>]}

\* the history files a process can find at startup: none, an unreadable one,
\* text that is not JSON, JSON that is not an object, or a JSON object written
\* by an earlier run (possibly under another MAX_HISTORY_SIZE)
InitFiles ==
    {MissingFile, UnreadableFile,
     TextFile("invalid", EmptyMap), TextFile("null", EmptyMap),
     TextFile("number", EmptyMap)}
    \cup {TextFile("array", p) : p \in ArrayProps}
    \cup {TextFile("object", m) : m \in ChannelMaps}

NoOp == [op |-> "none", ch |-> "none", ret |-> FALSE, saved |-> "none", threw |-> FALSE]

Did(op, ch, ret, saved) ==
    [op |-> op, ch |-> ch, ret |-> ret, saved |-> saved, threw |-> FALSE]

NoLog == [c \in Channels |-> <<>>]

NoCall == [op |-> "none", result |-> "none", invoked |-> FALSE, threw |-> FALSE]

\* config.js with AI_SERVICE "OLLAMA" and OLLAMA_MODEL set
OllamaConfig ==
    [AI_SERVICE |-> "OLLAMA", OLLAMA_HOST |-> TRUE, OLLAMA_MODEL |-> TRUE,
     GEMINI_API_KEY |-> FALSE, GEMINI_MODEL |-> TRUE]

\* the store alone: the router is not exercised
RouterIdle ==
    /\ config = OllamaConfig
    /\ currentService = "null"
    /\ ollamaClient = FALSE
    /\ genAI = FALSE
    /\ geminiChatModel = FALSE
    /\ pc = "none"
    /\ initCalls = 0
    /\ backendCalls = 0
    /\ call = NoCall

FormatIdle ==
    /\ messages = <<>>
    /\ geminiMessages = <<>>
    /\ formatted = FALSE

\* the users whose profiles the model follows
Users == {"1"}

\* no record for the user in user_info.json
NoProfile == [present |-> FALSE, fields |-> {}]

\* the message handler is not working on a message
NoTurn == [pc |-> "idle", channelId |-> "none", answer |-> "none"]

\* data/usersInfo.json does not exist
NoUserInfoFile == [exists |-> FALSE, data |-> [u \in Users |-> NoProfile]]

ProfileIdle ==
    /\ userInfo = [u \in Users |-> NoProfile]
    /\ userInfoFile = NoUserInfoFile
    /\ turn = NoTurn
    /\ outbox = <<>>

\* no service call is being followed
NoRequest == [sent |-> FALSE, history |-> <<>>, message |-> <<>>, systemInstruction |-> <<>>]

NoArgs == [op |-> "none", messages |-> <<>>, channelId |-> "none", image |-> FALSE]

NoReply ==
    [settled |-> FALSE, value |-> [null |-> FALSE, text |-> <<>>, threw |-> FALSE],
     outcome |-> "none"]

BackendIdle ==
    /\ chatArgs = NoArgs
    /\ request = NoRequest
    /\ reply = NoReply

SplitIdle ==
    /\ splitText = <<>>
    /\ maxLength = 1
    /\ chunks = <<>>
    /\ splitDone = FALSE

DeliverIdle ==
    /\ aiResponse = <<>>
    /\ messageParts = <<>>
    /\ deliverPc = "idle"
    /\ partIndex = 0
    /\ pendingChunks = <<>>
    /\ sends = <<>>

\* no inbound event has been observed and nobody is on cooldown
TurnsIdle ==
    /\ userCooldowns = {}
    /\ inbound = <<>>

\* the scheduler's last step, before any
NoStep == [op |-> "none", noop |-> FALSE, fire |-> 0]

\* the proactive scheduler has not been started and no timer is set
SchedIdle ==
    /\ isProactiveMessagingActive = FALSE
    /\ proactiveTimer = "null"
    /\ pendingTimers = <<>>
    /\ fires = <<>>
    /\ fireCount = 0
    /\ proactiveSends = <<>>
    /\ saveIntervalId = FALSE
    /\ intervals = 0
    /\ schedLast = NoStep

ConcurrentIdle == TurnsIdle /\ SchedIdle

PipelineIdle ==
    /\ ProfileIdle
    /\ BackendIdle
    /\ SplitIdle
    /\ DeliverIdle
    /\ ConcurrentIdle

StoreIdle ==
    /\ maxHistorySize = -1
    /\ conversationHistory = EmptyMap
    /\ file = MissingFile
    /\ last = NoOp
    /\ appended = NoLog
    /\ snapshot = EmptyMap

Init ==
    /\ maxHistorySize \in HistorySizes
    /\ conversationHistory = EmptyMap
    /\ file \in InitFiles
    /\ last = NoOp
    /\ appended = NoLog
    /\ snapshot = EmptyMap
    /\ RouterIdle
    /\ FormatIdle
    /\ PipelineIdle

----------------------------------------------------------------------------
(* The operations on the store.                                            *)

\* under unlimited retention the model stops growing a history at MaxLen
Room(channelId, n) ==
    maxHistorySize = -1 =>
        Len(GetChannelHistory(conversationHistory, channelId)) + n <= MaxLen

\* loadHistory, as called by main.js and by the ready handler
LoadHistoryStep ==
    LET loaded == LoadHistory(file)
    IN /\ conversationHistory' = loaded.map
       /\ last' = [Did("load", "none", FALSE, "none") EXCEPT !.threw = loaded.threw]
       /\ UNCHANGED <<maxHistorySize, file, appended, snapshot, routerVars, formatVars, pipelineVars>>

\* saveHistory fired by the periodic timer or by shutdown
SaveTimer(outcome) ==
    LET saved == SaveHistory(conversationHistory, file, outcome)
    IN /\ file' = saved.file
       /\ last' = [Did("save", "none", FALSE, saved.saved) EXCEPT !.threw = saved.threw]
       /\ UNCHANGED <<maxHistorySize, conversationHistory, appended, snapshot, routerVars, formatVars, pipelineVars>>

\* the message handler stores a completed exchange
Exchange(channelId, outcome) ==
    LET r == StoreExchange(conversationHistory, file, maxHistorySize, channelId,
                           UserTurn, AssistantTurn, outcome)
    IN /\ Room(channelId, 2)
       /\ conversationHistory' = r.map
       /\ file' = r.file
       /\ last' = Did("exchange", channelId, FALSE, r.saved)
       /\ UNCHANGED <<maxHistorySize, appended, snapshot, routerVars, formatVars, pipelineVars>>

\* a proactive fire stores the text it sent
ProactiveAppend(channelId) ==
    /\ Room(channelId, 1)
    /\ conversationHistory' =
           AddMessageToHistory(conversationHistory, maxHistorySize, channelId, ProactiveTurn)
    /\ last' = Did("proactive", channelId, FALSE, "none")
    /\ UNCHANGED <<maxHistorySize, file, appended, snapshot, routerVars, formatVars, pipelineVars>>

\* the clearhistory command
ClearHistoryCommand(channelId, outcome) ==
    LET r == ClearChannelHistory(conversationHistory, file, channelId, outcome)
    IN /\ conversationHistory' = r.map
       /\ file' = r.file
       /\ last' = Did("clear", channelId, r.ret, r.saved)
       /\ UNCHANGED <<maxHistorySize, appended, snapshot, routerVars, formatVars, pipelineVars>>

\* the messages an addhistory fetch can yield, already mapped to user turns
FetchedLists == SeqsUpTo({UserTurn}, MaxLen)

\* the addhistory command
AddHistoryCommand(channelId, fetchOk, recent, outcome) ==
    LET r == AddHistoryExecute(conversationHistory, file, maxHistorySize, channelId,
                               fetchOk, recent, outcome)
    IN /\ maxHistorySize = -1 => Len(GetChannelHistory(r.map, channelId)) <= MaxLen
       /\ conversationHistory' = r.map
       /\ file' = r.file
       /\ last' = Did("addhistory", channelId, FALSE, r.saved)
       /\ UNCHANGED <<maxHistorySize, appended, snapshot, routerVars, formatVars, pipelineVars>>

Next ==
    \/ LoadHistoryStep
    \/ \E outcome \in WriteOutcomes : SaveTimer(outcome)
    \/ \E c \in Channels, outcome \in WriteOutcomes : Exchange(c, outcome)
    \/ \E c \in Channels : ProactiveAppend(c)
    \/ \E c \in Channels, outcome \in WriteOutcomes : ClearHistoryCommand(c, outcome)
    \/ \E c \in Channels : AddHistoryCommand(c, FALSE, <<>>, "ok")
    \/ \E c \in Channels, recent \in FetchedLists, outcome \in WriteOutcomes :
          AddHistoryCommand(c, TRUE, recent, outcome)

Spec == Init /\ [][Next]_vars

----------------------------------------------------------------------------
(* Append-only runs: addMessageToHistory calls on an empty store.          *)

InitAppend ==
    /\ maxHistorySize \in 1 .. MaxN
    /\ conversationHistory = EmptyMap
    /\ file = MissingFile
    /\ last = NoOp
    /\ appended = NoLog
    /\ snapshot = EmptyMap
    /\ RouterIdle
    /\ FormatIdle
    /\ PipelineIdle

\* one addMessageToHistory call
AppendCall(channelId, messageObject) ==
    /\ Len(appended[channelId]) < MaxAppends
    /\ conversationHistory' =
           AddMessageToHistory(conversationHistory, maxHistorySize, channelId, messageObject)
    /\ appended' = [appended EXCEPT ![channelId] = Append(@, messageObject)]
    /\ last' = Did("append", channelId, FALSE, "none")
    /\ UNCHANGED <<maxHistorySize, file, snapshot, routerVars, formatVars, pipelineVars>>

NextAppend == \E c \in Channels, t \in Turns : AppendCall(c, t)

SpecAppend == InitAppend /\ [][NextAppend]_vars

----------------------------------------------------------------------------
(* Round trips: saveHistory, then loadHistory, from any mapping and file.  *)

\* the mappings the store can hold: channel histories, and the entry a JSON
\* array in the file leaves under key "0"
StoreMaps == ChannelMaps \cup {MapSet(m, "0", <<UserTurn>>) : m \in ChannelMaps}

\* the file a save finds: any of the malformed ones, or an object left by an
\* earlier run
StaleFiles ==
    {f \in InitFiles : f.kind # "object"}
    \cup {TextFile("object", EmptyMap),
          TextFile("object", [k \in {"c1"} |-> <<AssistantTurn>>])}

InitRoundTrip ==
    /\ maxHistorySize = -1
    /\ conversationHistory \in StoreMaps
    /\ file \in StaleFiles
    /\ last = NoOp
    /\ appended = NoLog
    /\ snapshot = conversationHistory
    /\ RouterIdle
    /\ FormatIdle
    /\ PipelineIdle

RoundTripSave(outcome) ==
    LET saved == SaveHistory(conversationHistory, file, outcome)
    IN /\ last.op = "none"
       /\ file' = saved.file
       /\ last' = [Did("save", "none", FALSE, saved.saved) EXCEPT !.threw = saved.threw]
       /\ UNCHANGED <<maxHistorySize, conversationHistory, appended, snapshot, routerVars, formatVars, pipelineVars>>

RoundTripLoad ==
    LET loaded == LoadHistory(file)
    IN /\ last.op = "save"
       /\ conversationHistory' = loaded.map
       /\ last' = [Did("load", "none", FALSE, last.saved) EXCEPT !.threw = loaded.threw]
       /\ UNCHANGED <<maxHistorySize, file, appended, snapshot, routerVars, formatVars, pipelineVars>>

NextRoundTrip ==
    \/ \E outcome \in WriteOutcomes : RoundTripSave(outcome)
    \/ RoundTripLoad

SpecRoundTrip == InitRoundTrip /\ [][NextRoundTrip]_vars

----------------------------------------------------------------------------
(* The AI services and the router (src/aiServiceProvider.js).              *)

\* what the client constructors can do during one initialize(): return, throw
\* in the constructor, or throw in getGenerativeModel
Faults == {"none", "ctor", "model"}

\* what a service's chat or describeImage hands back: text, or null after an
\* error it caught
BackendResults == {"text", "null"}

\* the configurations config.js lets a process start with: OLLAMA_HOST and
\* GEMINI_MODEL have defaults, and validate() exits when AI_SERVICE is OLLAMA
\* and OLLAMA_MODEL is unset
Configs ==
    {c \in [AI_SERVICE : {"OLLAMA", "GEMINI", "OTHER"}, OLLAMA_HOST : {TRUE},
            OLLAMA_MODEL : BOOLEAN, GEMINI_API_KEY : BOOLEAN, GEMINI_MODEL : {TRUE}] :
        c.AI_SERVICE = "OLLAMA" => c.OLLAMA_MODEL}

\* the module-level variables of the router and the two services
ServiceState ==
    [currentService |-> currentService, ollamaClient |-> ollamaClient,
     genAI |-> genAI, geminiChatModel |-> geminiChatModel]

\* ollamaService.initialize
OllamaInitialize(cfg, st, fault) ==
    IF ~cfg.OLLAMA_HOST \/ ~cfg.OLLAMA_MODEL THEN [st |-> st, ret |-> FALSE]
    ELSE IF fault = "ctor" THEN [st |-> st, ret |-> FALSE]
    ELSE [st |-> [st EXCEPT !.ollamaClient = TRUE], ret |-> TRUE]

\* geminiService.initialize
GeminiInitialize(cfg, st, fault) ==
    IF ~cfg.GEMINI_API_KEY THEN [st |-> st, ret |-> FALSE]
    ELSE IF ~cfg.GEMINI_MODEL THEN [st |-> st, ret |-> FALSE]
    ELSE IF fault = "ctor" THEN [st |-> st, ret |-> FALSE]
    ELSE IF fault = "model" THEN [st |-> [st EXCEPT !.genAI = TRUE], ret |-> FALSE]
    ELSE [st |-> [st EXCEPT !.genAI = TRUE, !.geminiChatModel = TRUE], ret |-> TRUE]

\* aiServiceProvider.initialize clearing currentService before it starts
InitializeResetsFirst(cfg, st, fault) ==
    LET cleared == [st EXCEPT !.currentService = "null"]
    IN IF cfg.AI_SERVICE = "OLLAMA"
       THEN LET r == OllamaInitialize(cfg, cleared, fault)
            IN [st |-> IF r.ret THEN [r.st EXCEPT !.currentService = "ollama"] ELSE r.st,
                ret |-> r.ret]
       ELSE IF cfg.AI_SERVICE = "GEMINI"
       THEN LET r == GeminiInitialize(cfg, cleared, fault)
            IN [st |-> IF r.ret THEN [r.st EXCEPT !.currentService = "gemini"] ELSE r.st,
                ret |-> r.ret]
       ELSE [st |-> cleared, ret |-> FALSE]

\* aiServiceProvider.initialize (userInfoManager.initialize, which it calls
\* first, touches only the profile store and never throws)
Initialize(cfg, st, fault) ==
    IF cfg.AI_SERVICE = "OLLAMA"
    THEN LET r == OllamaInitialize(cfg, st, fault)
         IN [st |-> IF r.ret THEN [r.st EXCEPT !.currentService = "ollama"] ELSE r.st,
             ret |-> r.ret]
    ELSE IF cfg.AI_SERVICE = "GEMINI"
    THEN LET r == GeminiInitialize(cfg, st, fault)
         IN [st |-> IF r.ret THEN [r.st EXCEPT !.currentService = "gemini"] ELSE r.st,
             ret |-> r.ret]
    ELSE [st |-> st, ret |-> FALSE]

\* currentService.isAvailable()
IsAvailable(st) ==
    CASE st.currentService = "ollama" -> st.ollamaClient
      [] st.currentService = "gemini" -> st.genAI /\ st.geminiChatModel
      [] OTHER -> FALSE

\* both services export describeImage
HasDescribeImage(service) == service \in {"ollama", "gemini"}

\* aiServiceProvider.chat without its guard: with no service the call on null
\* throws, otherwise it forwards
ChatUnguarded(st, backend) ==
    IF st.currentService = "null"
    THEN [result |-> "none", invoked |-> FALSE, threw |-> TRUE]
    ELSE [result |-> backend, invoked |-> TRUE, threw |-> FALSE]

\* aiServiceProvider.chat
Chat(st, backend) ==
    IF st.currentService = "null" \/ ~IsAvailable(st)
    THEN [result |-> "null", invoked |-> FALSE, threw |-> FALSE]
    ELSE [result |-> backend, invoked |-> TRUE, threw |-> FALSE]

\* aiServiceProvider.describeImage
DescribeImage(st, backend) ==
    IF st.currentService = "null" \/ ~IsAvailable(st)
    THEN [result |-> "null", invoked |-> FALSE, threw |-> FALSE]
    ELSE IF ~HasDescribeImage(st.currentService)
    THEN [result |-> "unsupported", invoked |-> FALSE, threw |-> FALSE]
    ELSE [result |-> backend, invoked |-> TRUE, threw |-> FALSE]

SetServices(st) ==
    /\ currentService' = st.currentService
    /\ ollamaClient' = st.ollamaClient
    /\ genAI' = st.genAI
    /\ geminiChatModel' = st.geminiChatModel

BoolText(b) == IF b THEN "true" ELSE "false"

\* a caller invokes aiServiceProvider.initialize()
RouterInitialize(fault) ==
    LET r == Initialize(config, ServiceState, fault)
    IN /\ pc = "api"
       /\ initCalls < MaxInitCalls
       /\ SetServices(r.st)
       /\ initCalls' = initCalls + 1
       /\ call' = [op |-> "initialize", result |-> BoolText(r.ret),
                   invoked |-> FALSE, threw |-> FALSE]
       /\ UNCHANGED <<config, pc, backendCalls, storeVars, formatVars, pipelineVars>>

\* a caller (the message handler, once the client is ready) invokes
\* aiServiceProvider.chat
ChatCall(backend) ==
    LET r == Chat(ServiceState, backend)
    IN /\ pc \in {"api", "ready"}
       /\ backendCalls < MaxBackendCalls
       /\ backendCalls' = IF r.invoked THEN backendCalls + 1 ELSE backendCalls
       /\ call' = [op |-> "chat", result |-> r.result,
                   invoked |-> r.invoked, threw |-> r.threw]
       /\ UNCHANGED <<config, currentService, ollamaClient, genAI, geminiChatModel,
                      pc, initCalls, storeVars, formatVars, pipelineVars>>

\* a caller invokes aiServiceProvider.describeImage
DescribeImageCall(backend) ==
    LET r == DescribeImage(ServiceState, backend)
    IN /\ pc \in {"api", "ready"}
       /\ backendCalls < MaxBackendCalls
       /\ backendCalls' = IF r.invoked THEN backendCalls + 1 ELSE backendCalls
       /\ call' = [op |-> "describeImage", result |-> r.result,
                   invoked |-> r.invoked, threw |-> r.threw]
       /\ UNCHANGED <<config, currentService, ollamaClient, genAI, geminiChatModel,
                      pc, initCalls, storeVars, formatVars, pipelineVars>>

\* the router driven through its exported functions, in any order
InitRouter ==
    /\ config \in Configs
    /\ currentService = "null"
    /\ ollamaClient = FALSE
    /\ genAI = FALSE
    /\ geminiChatModel = FALSE
    /\ pc = "api"
    /\ initCalls = 0
    /\ backendCalls = 0
    /\ call = NoCall
    /\ StoreIdle
    /\ FormatIdle
    /\ PipelineIdle

NextRouter ==
    \/ \E fault \in Faults : RouterInitialize(fault)
    \/ \E backend \in BackendResults : ChatCall(backend)
    \/ \E backend \in BackendResults : DescribeImageCall(backend)

SpecRouter == InitRouter /\ [][NextRouter]_vars

----------------------------------------------------------------------------
(* Startup: main.js, then the ClientReady handler.                         *)

\* main.js from the initialize() call to discordLogin(): a failed initialize
\* exits the process, otherwise the history is loaded
MainScript(fault) ==
    LET r == Initialize(config, ServiceState, fault)
    IN /\ pc = "main"
       /\ SetServices(r.st)
       /\ initCalls' = initCalls + 1
       /\ call' = [op |-> "initialize", result |-> BoolText(r.ret),
                   invoked |-> FALSE, threw |-> FALSE]
       /\ IF r.ret
          THEN /\ pc' = "login"
               /\ conversationHistory' = LoadHistory(file).map
          ELSE /\ pc' = "exited"
               /\ UNCHANGED conversationHistory
       /\ UNCHANGED <<config, backendCalls, maxHistorySize, file, last, appended,
                      snapshot, formatVars, pipelineVars>>

\* client.login rejects: discordClient.js exits the process
LoginFails ==
    /\ pc = "login"
    /\ pc' = "exited"
    /\ UNCHANGED <<config, currentService, ollamaClient, genAI, geminiChatModel,
                   initCalls, backendCalls, call, storeVars, formatVars, pipelineVars>>

\* the ClientReady handler: initialize() again, whatever it returns, then
\* loadHistory
ReadyHandler(fault) ==
    LET r == Initialize(config, ServiceState, fault)
    IN /\ pc = "login"
       /\ SetServices(r.st)
       /\ initCalls' = initCalls + 1
       /\ call' = [op |-> "initialize", result |-> BoolText(r.ret),
                   invoked |-> FALSE, threw |-> FALSE]
       /\ conversationHistory' = LoadHistory(file).map
       /\ pc' = "ready"
       /\ UNCHANGED <<config, backendCalls, maxHistorySize, file, last, appended,
                      snapshot, formatVars, pipelineVars>>

\* SIGINT or SIGTERM: shutdown saves the history and exits
Shutdown(outcome) ==
    /\ pc \in {"login", "ready"}
    /\ file' = SaveHistory(conversationHistory, file, outcome).file
    /\ pc' = "exited"
    /\ UNCHANGED <<config, currentService, ollamaClient, genAI, geminiChatModel,
                   initCalls, backendCalls, call, maxHistorySize, conversationHistory,
                   last, appended, snapshot, formatVars, pipelineVars>>

InitBoot ==
    /\ config \in Configs
    /\ currentService = "null"
    /\ ollamaClient = FALSE
    /\ genAI = FALSE
    /\ geminiChatModel = FALSE
    /\ pc = "main"
    /\ initCalls = 0
    /\ backendCalls = 0
    /\ call = NoCall
    /\ maxHistorySize = -1
    /\ conversationHistory = EmptyMap
    /\ file \in StaleFiles
    /\ last = NoOp
    /\ appended = NoLog
    /\ snapshot = EmptyMap
    /\ FormatIdle
    /\ PipelineIdle

NextBoot ==
    \/ \E fault \in Faults : MainScript(fault)
    \/ LoginFails
    \/ \E fault \in Faults : ReadyHandler(fault)
    \/ \E backend \in BackendResults : ChatCall(backend)
    \/ \E backend \in BackendResults : DescribeImageCall(backend)
    \/ \E outcome \in WriteOutcomes : Shutdown(outcome)

SpecBoot == InitBoot /\ [][NextBoot]_vars

----------------------------------------------------------------------------
(* formatMessagesForGemini (src/services/geminiService.js).                *)

\* the turns a history handed to the formatter can hold; a text is a sequence
\* of characters
FormatTurns ==
    {[role |-> "user", content |-> <<"a">>],
     [role |-> "user", content |-> <<"b">>],
     [role |-> "assistant", content |-> <<"a">>],
     [role |-> "assistant", content |-> <<"b">>],
     [role |-> "system", content |-> <<"a">>],
     [role |-> "user", content |-> <<>>],
     [role |-> "assistant", content |-> <<" ">>]}

FormatInputs == SeqsUpTo(FormatTurns, MaxMsgs)

\* the white space String.prototype.trim removes, as far as texts hold it
Whitespace == {" ", "\n", "\r", "\t"}

RECURSIVE TrimStart(_)
TrimStart(text) ==
    IF text # <<>> /\ Head(text) \in Whitespace THEN TrimStart(Tail(text)) ELSE text

RECURSIVE TrimEnd(_)
TrimEnd(text) ==
    IF text # <<>> /\ text[Len(text)] \in Whitespace
    THEN TrimEnd(SubSeq(text, 1, Len(text) - 1))
    ELSE text

\* String.prototype.trim
Trim(text) == TrimEnd(TrimStart(text))

\* the role a message is sent under
GeminiRole(role) == IF role = "assistant" THEN "model" ELSE "user"

\* the for loop of formatMessagesForGemini, from message i on
RECURSIVE FormatLoop(_, _, _)
FormatLoop(msgs, i, acc) ==
    IF i > Len(msgs) THEN acc
    ELSE LET msg == msgs[i]
             role == GeminiRole(msg.role)
             part == [text |-> msg.content]
         IN FormatLoop(msgs, i + 1,
                IF role = acc.currentRole
                THEN [acc EXCEPT !.currentParts = Append(@, part)]
                ELSE [geminiMessages |->
                          IF acc.currentRole # "null" /\ Len(acc.currentParts) > 0
                          THEN Append(acc.geminiMessages,
                                      [role |-> acc.currentRole, parts |-> acc.currentParts])
                          ELSE acc.geminiMessages,
                      currentRole |-> role,
                      currentParts |-> <<part>>])

\* formatMessagesForGemini
FormatMessagesForGemini(msgs) ==
    LET looped == FormatLoop(msgs, 1,
                      [geminiMessages |-> <<>>, currentRole |-> "null", currentParts |-> <<>>])
        pushed == IF looped.currentRole # "null" /\ Len(looped.currentParts) > 0
                  THEN Append(looped.geminiMessages,
                              [role |-> looped.currentRole, parts |-> looped.currentParts])
                  ELSE looped.geminiMessages
    IN SelectSeq(pushed,
           LAMBDA msg : \A j \in DOMAIN msg.parts :
               msg.parts[j].text # <<>> /\ Trim(msg.parts[j].text) # <<>>)

InitFormat ==
    /\ messages \in FormatInputs
    /\ geminiMessages = <<>>
    /\ formatted = FALSE
    /\ StoreIdle
    /\ RouterIdle
    /\ PipelineIdle

\* one call of formatMessagesForGemini
FormatCall ==
    /\ ~formatted
    /\ geminiMessages' = FormatMessagesForGemini(messages)
    /\ formatted' = TRUE
    /\ UNCHANGED <<messages, storeVars, routerVars, pipelineVars>>

NextFormat == FormatCall

SpecFormat == InitFormat /\ [][NextFormat]_vars

----------------------------------------------------------------------------
(* User profiles (src/utils/userInfoManager.js), the input command, and    *)
(* the message handler from an accepted message to the stored exchange.    *)

MaxOutbox == 2

\* userInfoManager's REQUIRED_FIELDS
REQUIRED_FIELDS == <<"name", "city">>

RequiredSet == {REQUIRED_FIELDS[i] : i \in DOMAIN REQUIRED_FIELDS}

\* a profile: no record, or a record and the required fields it holds a
\* truthy value for
Profiles ==
    {NoProfile} \cup {[present |-> TRUE, fields |-> F] : F \in SUBSET RequiredSet}

\* isDM channels get the id dm_<author id>; geminiService.chat recovers the
\* user id from it with /^dm_(\d+)$/ ("null" when the id does not match)
DmUserId(channelId) == IF channelId = "dm_1" THEN "1" ELSE "null"

\* isUserInfoComplete
IsUserInfoComplete(info, userId) ==
    /\ userId \in DOMAIN info
    /\ info[userId].present
    /\ \A i \in DOMAIN REQUIRED_FIELDS : REQUIRED_FIELDS[i] \in info[userId].fields

\* getMissingFields
GetMissingFields(info, userId) ==
    IF userId \notin DOMAIN info \/ ~info[userId].present
    THEN REQUIRED_FIELDS
    ELSE SelectSeq(REQUIRED_FIELDS, LAMBDA field : field \notin info[userId].fields)

\* reloadUserInfo: the file's content replaces the cache when there is a file
ReloadUserInfo(info, f) == IF f.exists THEN f.data ELSE info

\* saveUserInfo
SaveUserInfo(info, f, outcome) ==
    IF outcome = "ok" THEN [exists |-> TRUE, data |-> info] ELSE f

\* setUserField with a non-empty value: the cache changes whether or not
\* the write succeeds
SetUserField(info, f, userId, field, outcome) ==
    LET updated == [info EXCEPT ![userId] =
                        [present |-> TRUE, fields |-> @.fields \cup {field}]]
    IN [info |-> updated, file |-> SaveUserInfo(updated, f, outcome)]

\* aiServiceProvider.isImageProcessingAvailable
IsImageProcessingAvailable(st, cfg) ==
    IF st.currentService = "null" \/ ~IsAvailable(st)
           \/ ~HasDescribeImage(st.currentService)
    THEN FALSE
    ELSE IF cfg.AI_SERVICE = "OLLAMA" THEN cfg.IMAGE_READER_MODEL
    ELSE cfg.AI_SERVICE = "GEMINI"

\* geminiService.chat up to the backend request, for a non-empty messages
\* array: with a dm_<userId> channel id and an incomplete profile it returns
\* the instruction text built from getMissingFields
GeminiChat(st, info, channelId, backend) ==
    IF ~(st.genAI /\ st.geminiChatModel)
    THEN [result |-> "null", invoked |-> FALSE, fields |-> <<>>]
    ELSE IF DmUserId(channelId) # "null"
            /\ ~IsUserInfoComplete(info, DmUserId(channelId))
    THEN [result |-> "instruction", invoked |-> FALSE,
          fields |-> GetMissingFields(info, DmUserId(channelId))]
    ELSE [result |-> backend, invoked |-> TRUE, fields |-> <<>>]

\* ollamaService.chat up to the backend request, for a non-empty messages array
OllamaChat(st, backend) ==
    IF ~st.ollamaClient
    THEN [result |-> "null", invoked |-> FALSE, fields |-> <<>>]
    ELSE [result |-> backend, invoked |-> TRUE, fields |-> <<>>]

\* aiServiceProvider.chat with the handler's options: the guard, then the
\* current service's chat
ProviderChat(st, info, channelId, backend) ==
    IF ~Chat(st, backend).invoked
    THEN [result |-> "null", invoked |-> FALSE, fields |-> <<>>]
    ELSE IF st.currentService = "gemini"
    THEN GeminiChat(st, info, channelId, backend)
    ELSE OllamaChat(st, backend)

\* one message the bot sent
Sent(channelId, kind, fields) == [to |-> channelId, kind |-> kind, fields |-> fields]

\* the input command in a private chat: setUserField, then a reply
InputCommand(userId, field, outcome) ==
    LET r == SetUserField(userInfo, userInfoFile, userId, field, outcome)
    IN /\ Len(outbox) < MaxOutbox
       /\ userInfo' = r.info
       /\ userInfoFile' = r.file
       /\ outbox' = Append(outbox, Sent("dm_1", "input", <<field>>))
       /\ UNCHANGED <<turn, storeVars, routerVars, formatVars, offProfile>>

\* the handler accepts a message (not a bot's, not a command, author not on
\* cooldown): a private message reloads the profiles first; every fetched
\* image attachment goes to describeImage when image processing is available
Receive(channelId, images) ==
    LET describing == images /\ IsImageProcessingAvailable(ServiceState, config)
    IN /\ turn.pc = "idle"
       /\ Len(outbox) < MaxOutbox
       /\ userInfo' = IF DmUserId(channelId) # "null"
                      THEN ReloadUserInfo(userInfo, userInfoFile)
                      ELSE userInfo
       /\ turn' = [pc |-> IF describing THEN "images" ELSE "compose",
                   channelId |-> channelId, answer |-> "none"]
       /\ backendCalls' = IF describing THEN backendCalls + 1 ELSE backendCalls
       /\ call' = IF describing
                  THEN [op |-> "describeImage", result |-> "pending",
                        invoked |-> TRUE, threw |-> FALSE]
                  ELSE call
       /\ UNCHANGED <<userInfoFile, outbox, config, currentService, ollamaClient,
                      genAI, geminiChatModel, pc, initCalls, storeVars, formatVars, offProfile>>

\* describeImage has settled, with a description or without
ImagesDescribed ==
    /\ turn.pc = "images"
    /\ turn' = [turn EXCEPT !.pc = "compose"]
    /\ UNCHANGED <<userInfo, userInfoFile, outbox, storeVars, routerVars, formatVars, offProfile>>

\* a further private message of the author while the handler is busy with
\* the first: it reloads the profiles and stops at the cooldown check
CooldownDm ==
    /\ turn.pc # "idle"
    /\ DmUserId(turn.channelId) # "null"
    /\ userInfo' = ReloadUserInfo(userInfo, userInfoFile)
    /\ UNCHANGED <<userInfoFile, turn, outbox, storeVars, routerVars, formatVars, offProfile>>

\* the handler's AI interaction up to the await of aiServiceProvider.chat:
\* in a private chat an incomplete profile gets the instruction and the
\* handler returns; otherwise the window goes to the provider
ChatRequest ==
    LET channelId == turn.channelId
        isDM == DmUserId(channelId) # "null"
        r == ProviderChat(ServiceState, userInfo, channelId, "pending")
    IN /\ turn.pc = "compose"
       /\ IF isDM /\ ~IsUserInfoComplete(userInfo, DmUserId(channelId))
          THEN /\ outbox' = Append(outbox, Sent(channelId, "profile-required",
                                                REQUIRED_FIELDS))
               /\ turn' = NoTurn
               /\ UNCHANGED <<backendCalls, call>>
          ELSE /\ turn' = [turn EXCEPT !.pc = "chat", !.answer = r.result]
               /\ backendCalls' = IF r.invoked THEN backendCalls + 1 ELSE backendCalls
               /\ call' = [op |-> "chat", result |-> r.result,
                           invoked |-> r.invoked, threw |-> FALSE]
               /\ UNCHANGED outbox
       /\ UNCHANGED <<userInfo, userInfoFile, config, currentService, ollamaClient,
                      genAI, geminiChatModel, pc, initCalls, storeVars, formatVars, offProfile>>

\* aiServiceProvider.chat has settled: null gets a notice and no history,
\* a text is stored as an exchange, saved and delivered
Completion(backend, outcome) ==
    LET channelId == turn.channelId
        answer == IF turn.answer = "pending" THEN backend ELSE turn.answer
        r == StoreExchange(conversationHistory, file, maxHistorySize, channelId,
                           UserTurn, AssistantTurn, outcome)
    IN /\ turn.pc = "chat"
       /\ turn' = NoTurn
       /\ IF answer = "null"
          THEN /\ outbox' = Append(outbox,
                       Sent(channelId,
                            IF DmUserId(channelId) # "null" THEN "need-info"
                            ELSE "no-response", <<>>))
               /\ UNCHANGED <<conversationHistory, file, last>>
          ELSE /\ Room(channelId, 2)
               /\ conversationHistory' = r.map
               /\ file' = r.file
               /\ last' = Did("exchange", channelId, FALSE, r.saved)
               /\ outbox' = Append(outbox, Sent(channelId, "reply", <<>>))
       /\ UNCHANGED <<userInfo, userInfoFile, maxHistorySize, appended, snapshot,
                      routerVars, formatVars, offProfile>>

\* sendProactiveMessage to a configured target whose send succeeded: the
\* text is appended to the target's history
ProactiveFire(targetId) ==
    /\ Len(outbox) < MaxOutbox
    /\ Room(targetId, 1)
    /\ outbox' = Append(outbox, Sent(targetId, "proactive", <<>>))
    /\ conversationHistory' =
           AddMessageToHistory(conversationHistory, maxHistorySize, targetId, ProactiveTurn)
    /\ last' = Did("proactive", targetId, FALSE, "none")
    /\ UNCHANGED <<userInfo, userInfoFile, turn, maxHistorySize, file, appended,
                   snapshot, routerVars, formatVars, offProfile>>

\* geminiService.chat called with options.channelId and a non-empty window
GeminiChatCall(channelId, backend) ==
    LET r == GeminiChat(ServiceState, userInfo, channelId, backend)
    IN /\ currentService = "gemini"
       /\ backendCalls < MaxBackendCalls
       /\ backendCalls' = IF r.invoked THEN backendCalls + 1 ELSE backendCalls
       /\ call' = [op |-> "geminiChat", result |-> r.result, invoked |-> r.invoked,
                   threw |-> FALSE, channelId |-> channelId, fields |-> r.fields]
       /\ UNCHANGED <<config, currentService, ollamaClient, genAI, geminiChatModel,
                      pc, initCalls, profileVars, storeVars, formatVars, offProfile>>

\* the configurations of a running bot: either service, the local one with
\* or without IMAGE_READER_MODEL
ProfileConfigs ==
    [AI_SERVICE : {"OLLAMA", "GEMINI"}, OLLAMA_HOST : {TRUE}, OLLAMA_MODEL : {TRUE},
     GEMINI_API_KEY : {TRUE}, GEMINI_MODEL : {TRUE}, IMAGE_READER_MODEL : BOOLEAN]

\* data/usersInfo.json as an earlier run left it
UserInfoFiles ==
    {NoUserInfoFile} \cup {[exists |-> TRUE, data |-> d] : d \in [Users -> Profiles]}

\* the bot is logged in, its service initialized and the profiles loaded
InitProfile ==
    /\ maxHistorySize \in HistorySizes
    /\ conversationHistory = EmptyMap
    /\ file = MissingFile
    /\ last = NoOp
    /\ appended = NoLog
    /\ snapshot = EmptyMap
    /\ config \in ProfileConfigs
    /\ LET st == Initialize(config,
                            [currentService |-> "null", ollamaClient |-> FALSE,
                             genAI |-> FALSE, geminiChatModel |-> FALSE], "none").st
       IN /\ currentService = st.currentService
          /\ ollamaClient = st.ollamaClient
          /\ genAI = st.genAI
          /\ geminiChatModel = st.geminiChatModel
    /\ pc = "ready"
    /\ initCalls = MaxInitCalls
    /\ backendCalls = 0
    /\ call = NoCall
    /\ userInfoFile \in UserInfoFiles
    /\ userInfo = ReloadUserInfo([u \in Users |-> NoProfile], userInfoFile)
    /\ turn = NoTurn
    /\ outbox = <<>>
    /\ FormatIdle
    /\ BackendIdle
    /\ SplitIdle
    /\ DeliverIdle
    /\ ConcurrentIdle

NextProfile ==
    \/ \E u \in Users, field \in RequiredSet, outcome \in WriteOutcomes :
          InputCommand(u, field, outcome)
    \/ \E c \in Channels, images \in BOOLEAN : Receive(c, images)
    \/ ImagesDescribed
    \/ CooldownDm
    \/ ChatRequest
    \/ \E backend \in BackendResults, outcome \in WriteOutcomes :
          Completion(backend, outcome)
    \/ \E c \in Channels : ProactiveFire(c)
    \/ \E c \in Channels, backend \in BackendResults : GeminiChatCall(c, backend)

SpecProfile == InitProfile /\ [][NextProfile]_vars

----------------------------------------------------------------------------
(* The calls the two services make to their backends: what geminiService   *)
(* puts into a chat request and what chat and describeImage return.        *)

MaxWindow == 3

\* the turns a window handed to a service can hold before the current one
WindowTurns ==
    {[role |-> "user", content |-> <<"a">>],
     [role |-> "assistant", content |-> <<"b">>],
     [role |-> "assistant", content |-> <<" ">>]}

\* the handler's window: a slice of the history, then the current user turn;
\* the empty array stands for a call without messages
Windows ==
    {<<>>} \cup
    {h \o <<[role |-> "user", content |-> <<"c">>]>> :
         h \in SeqsUpTo(WindowTurns, MaxWindow - 1)}

\* GEMINI_SYSTEM_INSTRUCTION: unset, plain, or with a <name> placeholder
SystemInstructions == {<<>>, <<"s">>, <<"s", "<name>">>}

\* `[SYSTEM INSTRUCTION: ${systemInstruction}]\n\n`
Bracketed(systemInstruction) ==
    <<"[SYSTEM INSTRUCTION: ">> \o systemInstruction \o <<"]", "\n\n">>

\* getPersonalizedSystemInstruction: undefined when nothing is configured,
\* the configured text when the user has no record, else the text with the
\* placeholder of every field of the record replaced by its value
GetPersonalizedSystemInstruction(cfg, info, userId) ==
    LET instruction == cfg.GEMINI_SYSTEM_INSTRUCTION
    IN IF instruction = <<>> THEN <<>>
       ELSE IF userId \notin DOMAIN info \/ ~info[userId].present THEN instruction
       ELSE [i \in DOMAIN instruction |->
                IF instruction[i] = "<name>" /\ "name" \in info[userId].fields
                THEN "N" ELSE instruction[i]]

\* the index of the first user turn of a formatted history, 0 when none
FirstUserTurn(formattedHistory) ==
    IF \E i \in DOMAIN formattedHistory : formattedHistory[i].role = "user"
    THEN CHOOSE i \in DOMAIN formattedHistory :
             /\ formattedHistory[i].role = "user"
             /\ \A j \in 1 .. i - 1 : formattedHistory[j].role # "user"
    ELSE 0

\* the turn with the bracketed instruction put before its last part's text
WithInstruction(geminiTurn, systemInstruction) ==
    LET lastPartIndex == Len(geminiTurn.parts)
    IN IF lastPartIndex >= 1
       THEN [geminiTurn EXCEPT !.parts[lastPartIndex].text =
                                   Bracketed(systemInstruction) \o @]
       ELSE geminiTurn

\* the instruction geminiService.chat uses: personalized when the channel id
\* names a user, else the configured one
SystemInstructionFor(cfg, info, channelId) ==
    IF DmUserId(channelId) # "null"
    THEN GetPersonalizedSystemInstruction(cfg, info, DmUserId(channelId))
    ELSE cfg.GEMINI_SYSTEM_INSTRUCTION

\* geminiService.chat from the window to startChat and sendMessage
BuildRequest(cfg, info, window, channelId) ==
    LET currentUserMessage == window[Len(window)]
        formattedHistory == FormatMessagesForGemini(SubSeq(window, 1, Len(window) - 1))
        systemInstruction == SystemInstructionFor(cfg, info, channelId)
        firstUser == FirstUserTurn(formattedHistory)
    IN IF cfg.GEMINI_2X
       THEN IF systemInstruction # <<>> /\ Len(formattedHistory) > 0
            THEN [sent |-> TRUE,
                  history |-> IF firstUser = 0 THEN formattedHistory
                              ELSE [formattedHistory EXCEPT ![firstUser] =
                                        WithInstruction(@, systemInstruction)],
                  message |-> currentUserMessage.content,
                  systemInstruction |-> <<>>]
            ELSE IF systemInstruction # <<>>
            THEN [sent |-> TRUE, history |-> formattedHistory,
                  message |-> Bracketed(systemInstruction) \o currentUserMessage.content,
                  systemInstruction |-> <<>>]
            ELSE [sent |-> TRUE, history |-> formattedHistory,
                  message |-> currentUserMessage.content,
                  systemInstruction |-> <<>>]
       ELSE [sent |-> TRUE, history |-> formattedHistory,
             message |-> currentUserMessage.content,
             systemInstruction |-> systemInstruction]

\* what a call returned: null, or a string
Null == [null |-> TRUE, text |-> <<>>, threw |-> FALSE]

Returned(string) == [null |-> FALSE, text |-> string, threw |-> FALSE]

\* the call's promise rejected
Thrown == [null |-> FALSE, text |-> <<>>, threw |-> TRUE]

\* a call that has settled: its value, and how the backend call it made went
\* ("none" when it made none)
Settled(value, outcome) == [settled |-> TRUE, value |-> value, outcome |-> outcome]

\* missingFields.map(...).join("\n")
RECURSIVE FieldLines(_)
FieldLines(fields) ==
    IF fields = <<>> THEN <<>>
    ELSE IF Len(fields) = 1 THEN <<"- ", Head(fields)>>
    ELSE <<"- ", Head(fields), "\n">> \o FieldLines(Tail(fields))

\* the text geminiService.chat returns for an incomplete profile
InstructionText(fields) ==
    <<"Before we can chat, pls provide the following:", "[NEXT_MSG]">>
        \o FieldLines(fields) \o <<"[NEXT_MSG]", "pls.">>

\* what chatSession.sendMessage and generateContent can do: reject, or
\* resolve with a response that has promptFeedback.blockReason or not, no
\* candidates array, an empty one, or a first candidate with a finishReason
\* and without content, with content lacking parts, or with text parts
GeminiResponses ==
    {[threw |-> TRUE, blockReason |-> FALSE, candidates |-> "missing",
      content |-> "missing", finishReason |-> "none", text |-> <<>>]}
    \cup
    {r \in [threw : {FALSE}, blockReason : BOOLEAN,
            candidates : {"missing", "empty", "one"},
            content : {"missing", "noparts", "parts"},
            finishReason : {"none", "STOP", "SAFETY"},
            text : {<<>>, <<"a">>, <<" ", "a">>}] :
        /\ r.candidates # "one" => (r.content = "missing" /\ r.finishReason = "none")
        /\ r.content # "parts" => r.text = <<>>}

\* the prompt or the candidate was blocked for policy reasons
PolicyBlocked(response) ==
    /\ ~response.threw
    /\ \/ response.blockReason
       \/ /\ response.candidates = "one"
          /\ response.content = "missing"
          /\ response.finishReason = "SAFETY"

\* the backend call failed: it threw, or it came back without a candidate
\* and without a policy block
BackendFailed(response) ==
    \/ response.threw
    \/ /\ ~PolicyBlocked(response)
       /\ (response.candidates # "one" \/ response.content = "missing")

\* how a Gemini backend call went
GeminiOutcome(response) ==
    IF PolicyBlocked(response) THEN "blocked"
    ELSE IF BackendFailed(response) THEN "failed"
    ELSE "answered"

\* how an Ollama backend call went
OllamaOutcome(response) == IF response.threw THEN "failed" ELSE "answered"

\* geminiService.chat after sendMessage: the try block's returns and the catch
GeminiChatReturn(response) ==
    IF response.threw THEN Null
    ELSE IF response.blockReason
    THEN Returned(<<"[", "AI response blocked due to: ", "reason", ".]">>)
    ELSE IF response.candidates # "one" \/ response.content = "missing"
    THEN IF response.candidates = "one" /\ response.finishReason = "SAFETY"
         THEN Returned(<<"[", "AI response blocked by safety filters", ".]">>)
         ELSE Null
    ELSE IF response.content = "noparts" THEN Null
    ELSE Returned(response.text)

\* geminiService.describeImage after generateContent
GeminiDescribeReturn(response) ==
    IF response.threw THEN Null
    ELSE IF response.blockReason
    THEN Returned(<<"[", "Image description blocked due to: ", "reason", "]">>)
    ELSE IF response.candidates # "one" \/ response.content = "missing"
    THEN IF response.candidates = "one" /\ response.finishReason = "SAFETY"
         THEN Returned(<<"[", "Image description blocked by safety filters", ".]">>)
         ELSE Null
    ELSE IF response.content = "noparts" THEN Null
    ELSE Returned(Trim(response.text))

\* what ollamaClient.chat can do: reject (connection refused, a model error,
\* anything else) or resolve with message.content
OllamaResponses ==
    [threw : {TRUE}, cause : {"ECONNREFUSED", "model", "other"}, text : {<<>>}]
    \cup [threw : {FALSE}, cause : {"none"}, text : {<<>>, <<"a">>, <<" ", "a">>}]

\* ollamaService.chat with the catch block rethrowing
OllamaChatUncaught(response) ==
    IF response.threw THEN Thrown ELSE Returned(response.text)

\* ollamaService.chat after ollamaClient.chat
OllamaChatReturn(response) ==
    IF response.threw THEN Null ELSE Returned(response.text)

\* ollamaService.describeImage after ollamaClient.chat
OllamaDescribeReturn(response) ==
    IF response.threw THEN Null ELSE Returned(Trim(response.text))

\* geminiService.chat up to the await of sendMessage: null without a client
\* or without messages, the instruction text for an incomplete profile,
\* otherwise the request goes out
GeminiChatSend ==
    LET gate == GeminiChat(ServiceState, userInfo, chatArgs.channelId, "pending")
    IN /\ chatArgs.op = "geminiChat"
       /\ ~request.sent
       /\ ~reply.settled
       /\ IF gate.result = "null" \/ chatArgs.messages = <<>>
          THEN /\ reply' = Settled(Null, "none")
               /\ UNCHANGED <<request, backendCalls>>
          ELSE IF gate.result = "instruction"
          THEN /\ reply' = Settled(Returned(InstructionText(gate.fields)), "none")
               /\ UNCHANGED <<request, backendCalls>>
          ELSE /\ request' = BuildRequest(config, userInfo, chatArgs.messages,
                                          chatArgs.channelId)
               /\ backendCalls' = backendCalls + 1
               /\ UNCHANGED reply
       /\ UNCHANGED <<chatArgs, config, currentService, ollamaClient, genAI,
                      geminiChatModel, pc, initCalls, call, storeVars, formatVars,
                      offBackend>>

\* sendMessage has settled and geminiService.chat returns
GeminiChatSettle(response) ==
    /\ chatArgs.op = "geminiChat"
    /\ request.sent
    /\ ~reply.settled
    /\ reply' = Settled(GeminiChatReturn(response), GeminiOutcome(response))
    /\ UNCHANGED <<chatArgs, request, storeVars, routerVars, formatVars, offBackend>>

\* geminiService.describeImage
GeminiDescribeRun(response) ==
    /\ chatArgs.op = "geminiDescribe"
    /\ ~reply.settled
    /\ IF ~(genAI /\ geminiChatModel) \/ ~chatArgs.image
       THEN /\ reply' = Settled(Null, "none")
            /\ UNCHANGED <<request, backendCalls>>
       ELSE /\ request' = [NoRequest EXCEPT !.sent = TRUE]
            /\ backendCalls' = backendCalls + 1
            /\ reply' = Settled(GeminiDescribeReturn(response), GeminiOutcome(response))
    /\ UNCHANGED <<chatArgs, config, currentService, ollamaClient, genAI,
                   geminiChatModel, pc, initCalls, call, storeVars, formatVars,
                   offBackend>>

\* ollamaService.chat
OllamaChatRun(response) ==
    /\ chatArgs.op = "ollamaChat"
    /\ ~reply.settled
    /\ IF ~ollamaClient \/ chatArgs.messages = <<>>
       THEN /\ reply' = Settled(Null, "none")
            /\ UNCHANGED <<request, backendCalls>>
       ELSE /\ request' = [NoRequest EXCEPT !.sent = TRUE]
            /\ backendCalls' = backendCalls + 1
            /\ reply' = Settled(OllamaChatReturn(response), OllamaOutcome(response))
    /\ UNCHANGED <<chatArgs, config, currentService, ollamaClient, genAI,
                   geminiChatModel, pc, initCalls, call, storeVars, formatVars,
                   offBackend>>

\* ollamaService.describeImage
OllamaDescribeRun(response) ==
    /\ chatArgs.op = "ollamaDescribe"
    /\ ~reply.settled
    /\ IF ~ollamaClient \/ ~config.IMAGE_READER_MODEL \/ ~chatArgs.image
       THEN /\ reply' = Settled(Null, "none")
            /\ UNCHANGED <<request, backendCalls>>
       ELSE /\ request' = [NoRequest EXCEPT !.sent = TRUE]
            /\ backendCalls' = backendCalls + 1
            /\ reply' = Settled(OllamaDescribeReturn(response), OllamaOutcome(response))
    /\ UNCHANGED <<chatArgs, config, currentService, ollamaClient, genAI,
                   geminiChatModel, pc, initCalls, call, storeVars, formatVars,
                   offBackend>>

\* the configurations of a running bot, with the fields the services read
BackendConfigs ==
    {c \in [AI_SERVICE : {"OLLAMA", "GEMINI"}, OLLAMA_HOST : {TRUE},
            OLLAMA_MODEL : {TRUE}, GEMINI_API_KEY : {TRUE}, GEMINI_MODEL : {TRUE},
            IMAGE_READER_MODEL : BOOLEAN, GEMINI_2X : BOOLEAN,
            GEMINI_SYSTEM_INSTRUCTION : SystemInstructions] :
        /\ c.AI_SERVICE = "OLLAMA" =>
               (~c.GEMINI_2X /\ c.GEMINI_SYSTEM_INSTRUCTION = <<>>)
        /\ c.AI_SERVICE = "GEMINI" => ~c.IMAGE_READER_MODEL}

\* the calls the handler can make to the configured service
ServiceCalls(cfg) ==
    IF cfg.AI_SERVICE = "GEMINI"
    THEN [op : {"geminiChat"}, messages : Windows, channelId : Channels, image : {FALSE}]
         \cup [op : {"geminiDescribe"}, messages : {<<>>}, channelId : {"none"},
               image : BOOLEAN]
    ELSE [op : {"ollamaChat"}, messages : {<<>>, <<[role |-> "user", content |-> <<"c">>]>>},
          channelId : {"c1"}, image : {FALSE}]
         \cup [op : {"ollamaDescribe"}, messages : {<<>>}, channelId : {"none"},
               image : BOOLEAN]

\* one service call, made once the bot is running
InitBackend ==
    /\ config \in BackendConfigs
    /\ LET st == Initialize(config,
                            [currentService |-> "null", ollamaClient |-> FALSE,
                             genAI |-> FALSE, geminiChatModel |-> FALSE], "none").st
       IN /\ currentService = st.currentService
          /\ ollamaClient = st.ollamaClient
          /\ genAI = st.genAI
          /\ geminiChatModel = st.geminiChatModel
    /\ pc = "ready"
    /\ initCalls = MaxInitCalls
    /\ backendCalls = 0
    /\ call = NoCall
    /\ userInfo \in [Users -> Profiles]
    /\ userInfoFile = [exists |-> TRUE, data |-> userInfo]
    /\ turn = NoTurn
    /\ outbox = <<>>
    /\ chatArgs \in ServiceCalls(config)
    /\ request = NoRequest
    /\ reply = NoReply
    /\ StoreIdle
    /\ FormatIdle
    /\ SplitIdle
    /\ DeliverIdle
    /\ ConcurrentIdle

NextBackend ==
    \/ GeminiChatSend
    \/ \E response \in GeminiResponses : GeminiChatSettle(response)
    \/ \E response \in GeminiResponses : GeminiDescribeRun(response)
    \/ \E response \in OllamaResponses : OllamaChatRun(response)
    \/ \E response \in OllamaResponses : OllamaDescribeRun(response)

SpecBackend == InitBackend /\ [][NextBackend]_vars

----------------------------------------------------------------------------
(* splitMessage (src/utils/messageUtils.js), on texts as character         *)
(* sequences.                                                              *)

MaxText == 4

MaxChunk == 3

\* the characters a text is made of: a letter, a blank, the line ends
SplitChars == {"a", " ", "\n", "\r"}

SplitTexts == SeqsUpTo(SplitChars, MaxText)

\* the chunk returned when nothing else is
Placeholder == <<".", ".", ".">>

\* text.replace(/\r\n/g, "\n")
RECURSIVE NormalizeNewlines(_)
NormalizeNewlines(string) ==
    IF string = <<>> THEN <<>>
    ELSE IF Len(string) >= 2 /\ string[1] = "\r" /\ string[2] = "\n"
    THEN <<"\n">> \o NormalizeNewlines(SubSeq(string, 3, Len(string)))
    ELSE <<Head(string)>> \o NormalizeNewlines(Tail(string))

\* string.split(/(\n)/) from character i on, current being the piece since
\* the last newline: the pieces and the newlines between them
RECURSIVE SplitKeepingNewlines(_, _, _)
SplitKeepingNewlines(string, i, current) ==
    IF i > Len(string) THEN <<current>>
    ELSE IF string[i] = "\n"
    THEN <<current, <<"\n">>>> \o SplitKeepingNewlines(string, i + 1, <<>>)
    ELSE SplitKeepingNewlines(string, i + 1, Append(current, string[i]))

\* the loop pushing string.substring(j, Math.min(j + size, string.length)) for
\* j = 0, size, 2 * size, ...
RECURSIVE HardSplit(_, _)
HardSplit(string, size) ==
    IF string = <<>> THEN <<>>
    ELSE IF Len(string) <= size THEN <<string>>
    ELSE <<SubSeq(string, 1, size)>> \o HardSplit(SubSeq(string, size + 1, Len(string)), size)

\* the for loop over the parts, from part i on
RECURSIVE SplitLoop(_, _, _, _, _)
SplitLoop(parts, i, size, acc, currentChunk) ==
    IF i > Len(parts) THEN [chunks |-> acc, currentChunk |-> currentChunk]
    ELSE LET part == parts[i]
             isNewlineDelimiter == part = <<"\n">>
             joint == IF Len(currentChunk) > 0 /\ ~isNewlineDelimiter THEN 1 ELSE 0
             flushed == IF Len(currentChunk) > 0
                        THEN Append(acc, Trim(currentChunk)) ELSE acc
         IN IF Len(currentChunk) + Len(part) + joint > size
            THEN IF Len(part) > size
                 THEN SplitLoop(parts, i + 1, size, flushed \o HardSplit(part, size), <<>>)
                 ELSE SplitLoop(parts, i + 1, size, flushed, part)
            ELSE SplitLoop(parts, i + 1, size, acc,
                     (IF Len(currentChunk) > 0 /\ ~isNewlineDelimiter
                             /\ Len(Trim(part)) > 0
                      THEN Append(currentChunk, " ") ELSE currentChunk) \o part)

\* the safeguard loop's step without its test for blank chunks
KeepAll(chunk, size) ==
    IF Len(chunk) > size THEN HardSplit(chunk, size) ELSE <<chunk>>

\* the safeguard loop's step: a chunk over the limit is split again, any
\* other is kept when it is not blank
Safeguard(chunk, size) ==
    IF Len(chunk) > size THEN HardSplit(chunk, size)
    ELSE IF Len(Trim(chunk)) > 0 THEN <<chunk>>
    ELSE <<>>

\* the safeguard loop
RECURSIVE FinalChunks(_, _)
FinalChunks(list, size) ==
    IF list = <<>> THEN <<>>
    ELSE Safeguard(Head(list), size) \o FinalChunks(Tail(list), size)

\* splitMessage
SplitMessage(string, size) ==
    IF string = <<>> THEN <<Placeholder>>
    ELSE LET parts == SplitKeepingNewlines(NormalizeNewlines(string), 1, <<>>)
             looped == SplitLoop(parts, 1, size, <<>>, <<>>)
             pushed == IF Len(Trim(looped.currentChunk)) > 0
                       THEN Append(looped.chunks, Trim(looped.currentChunk))
                       ELSE looped.chunks
             natural == IF pushed = <<>> /\ Len(Trim(string)) > 0
                        THEN HardSplit(string, size) ELSE pushed
             finalChunks == FinalChunks(natural, size)
         IN IF Len(finalChunks) > 0 THEN finalChunks ELSE <<Placeholder>>

InitSplit ==
    /\ splitText \in SplitTexts
    /\ maxLength \in 1 .. MaxChunk
    /\ chunks = <<>>
    /\ splitDone = FALSE
    /\ StoreIdle
    /\ RouterIdle
    /\ FormatIdle
    /\ ProfileIdle
    /\ BackendIdle
    /\ DeliverIdle
    /\ ConcurrentIdle

SplitCall ==
    /\ ~splitDone
    /\ chunks' = SplitMessage(splitText, maxLength)
    /\ splitDone' = TRUE
    /\ UNCHANGED <<splitText, maxLength, storeVars, routerVars, formatVars, offSplit>>

NextSplit == SplitCall

SpecSplit == InitSplit /\ [][NextSplit]_vars

----------------------------------------------------------------------------
(* The handler from the completion to its segments                         *)
(* (src/eventHandlers/messageCreateHandler.js); a text is a sequence of    *)
(* characters in which config.MESSAGE_SPLIT_TOKEN counts as one.           *)

MaxCompletion == 4

\* config.MESSAGE_SPLIT_TOKEN
Marker == "[NEXT_MSG]"

\* a character filterEmojis removes
Emoji == "EMOJI"

\* the characters of the regular expression's class [.!?]
Punctuation == {".", "!", "?"}

CompletionChars == {"a", "!", ".", " ", "\n", Marker, Emoji}

Completions == SeqsUpTo(CompletionChars, MaxCompletion)

\* aiResponse.replaceAll("\n\n", config.MESSAGE_SPLIT_TOKEN)
RECURSIVE ReplaceParagraphBreaks(_)
ReplaceParagraphBreaks(string) ==
    IF string = <<>> THEN <<>>
    ELSE IF Len(string) >= 2 /\ string[1] = "\n" /\ string[2] = "\n"
    THEN <<Marker>> \o ReplaceParagraphBreaks(SubSeq(string, 3, Len(string)))
    ELSE <<Head(string)>> \o ReplaceParagraphBreaks(Tail(string))

\* replace(/(?<!\.)\.(?!\.)/g, "") from character i on: every dot with no
\* dot next to it goes
RECURSIVE DropSingleDots(_, _)
DropSingleDots(string, i) ==
    IF i > Len(string) THEN <<>>
    ELSE (IF /\ string[i] = "."
             /\ (i > 1 => string[i - 1] # ".")
             /\ (i < Len(string) => string[i + 1] # ".")
          THEN <<>> ELSE <<string[i]>>)
         \o DropSingleDots(string, i + 1)

\* the handler's removal of single dots; config.js defines no
\* ALLOW_SINGLE_DOT, so the handler always does it
RemoveSingleDots(string) == DropSingleDots(string, 1)

\* aiResponseContent
Preprocess(string) == RemoveSingleDots(ReplaceParagraphBreaks(string))

\* the index of the first marker at or after position from, 0 when none
NextMarker(string, from) ==
    IF \E t \in from .. Len(string) : string[t] = Marker
    THEN CHOOSE t \in from .. Len(string) :
             string[t] = Marker /\ \A u \in from .. t - 1 : string[u] # Marker
    ELSE 0

\* the least index s >= low such that string[s .. high] lies within class
\* (high + 1 when string[high] does not)
RunStart(string, low, high, class) ==
    CHOOSE s \in low .. high + 1 :
        /\ \A u \in s .. high : string[u] \in class
        /\ \A r \in low .. s - 1 : \E u \in r .. high : string[u] \notin class

\* the index after the white space that starts at position from
RECURSIVE SkipWhitespace(_, _)
SkipWhitespace(string, from) ==
    IF from <= Len(string) /\ string[from] \in Whitespace
    THEN SkipWhitespace(string, from + 1) ELSE from

\* aiResponseContent.split(tokenRegex) from position from on, tokenRegex being
\* /([.!?]*)\s*TOKEN\s*/g: the texts between the matches, each followed by
\* what its match captured
RECURSIVE SplitByTokenRegex(_, _)
SplitByTokenRegex(string, from) ==
    LET t == NextMarker(string, from)
        spaces == RunStart(string, from, t - 1, Whitespace)
        marks == RunStart(string, from, spaces - 1, Punctuation)
    IN IF t = 0 THEN <<SubSeq(string, from, Len(string))>>
       ELSE <<SubSeq(string, from, marks - 1), SubSeq(string, marks, spaces - 1)>>
            \o SplitByTokenRegex(string, SkipWhitespace(string, t + 1))

\* the loop over rawParts, two at a time, from index i (counted from 1)
RECURSIVE CollectParts(_, _)
CollectParts(rawParts, i) ==
    IF i > Len(rawParts) THEN <<>>
    ELSE LET currentPart == rawParts[i]
             punctuation == IF i + 1 <= Len(rawParts) THEN rawParts[i + 1] ELSE <<>>
         IN (IF i = Len(rawParts)
             THEN IF Trim(currentPart) # <<>> THEN <<Trim(currentPart)>> ELSE <<>>
             ELSE IF Trim(currentPart) # <<>> \/ punctuation # <<>>
             THEN <<Trim(currentPart \o punctuation)>>
             ELSE <<>>)
            \o CollectParts(rawParts, i + 2)

\* string.split(config.MESSAGE_SPLIT_TOKEN)
RECURSIVE SplitByToken(_, _, _)
SplitByToken(string, i, current) ==
    IF i > Len(string) THEN <<current>>
    ELSE IF string[i] = Marker
    THEN <<current>> \o SplitByToken(string, i + 1, <<>>)
    ELSE SplitByToken(string, i + 1, Append(current, string[i]))

\* .map((p) => p.trim()).filter((p) => p)
RECURSIVE TrimmedNonEmpty(_)
TrimmedNonEmpty(list) ==
    IF list = <<>> THEN <<>>
    ELSE (IF Trim(Head(list)) # <<>> THEN <<Trim(Head(list))>> ELSE <<>>)
         \o TrimmedNonEmpty(Tail(list))

\* messageParts for a preprocessed completion that is not blank
MessageParts(aiResponseContent) ==
    LET byRegex == CollectParts(SplitByTokenRegex(aiResponseContent, 1), 1)
    IN IF byRegex = <<>> /\ Trim(aiResponseContent) # <<>>
       THEN TrimmedNonEmpty(SplitByToken(aiResponseContent, 1, <<>>))
       ELSE byRegex

\* the completion has arrived and is not null; the handler has not run on
InitSegments ==
    /\ aiResponse \in Completions
    /\ aiResponse # <<>>
    /\ messageParts = <<>>
    /\ deliverPc = "completion"
    /\ partIndex = 0
    /\ pendingChunks = <<>>
    /\ sends = <<>>
    /\ StoreIdle
    /\ RouterIdle
    /\ FormatIdle
    /\ ProfileIdle
    /\ BackendIdle
    /\ SplitIdle
    /\ ConcurrentIdle

\* the handler from the completion to messageParts, for a completion that
\* is not blank after preprocessing
SegmentSplit ==
    /\ deliverPc = "completion"
    /\ Trim(Preprocess(aiResponse)) # <<>>
    /\ messageParts' = MessageParts(Preprocess(aiResponse))
    /\ deliverPc' = "split"
    /\ UNCHANGED <<aiResponse, partIndex, pendingChunks, sends, storeVars, routerVars,
                   formatVars, offDeliver>>

NextSegments == SegmentSplit

SpecSegments == InitSegments /\ [][NextSegments]_vars

----------------------------------------------------------------------------
(* The handler from the completion to its return: the stored exchange, the *)
(* delivery loop, the filler and the catch block.                          *)

DeliverChars == {"a", ".", " ", Marker, Emoji}

\* the completions followed through delivery; the empty one is falsy and
\* takes the handler's null branch
DeliverCompletions == SeqsUpTo(DeliverChars, MaxCompletion)

\* filterEmojis
FilterEmojis(string) == SelectSeq(string, LAMBDA c : c # Emoji)

\* what the loop sends for a chunk
ProcessedChunk(cfg, chunk) ==
    IF cfg.ALLOW_EMOJIS = FALSE THEN FilterEmojis(chunk) ELSE chunk

\* the chunks of a segment as the loop sends them
ProcessedChunks(cfg, part) ==
    LET split == SplitMessage(part, cfg.MESSAGE_CHUNK_SIZE)
    IN [j \in DOMAIN split |-> ProcessedChunk(cfg, split[j])]

\* the loop pausing after every segment, the last included
DelayAfterEvery(i, length, delayMs) == delayMs > 0

\* i < messageParts.length - 1 && config.MESSAGE_SPLIT_DELAY_MS > 0, with i
\* counted from 1
NeedsDelay(i, length, delayMs) == i < length /\ delayMs > 0

\* the handler never sending the filler
NeverFiller(parts) == FALSE

\* messageParts.length === 0 || messageParts.every((p) => p.trim() === "")
NeedsFiller(parts) ==
    parts = <<>> \/ \A i \in DOMAIN parts : Trim(parts[i]) = <<>>

\* one call of message.channel.send, or one pause of the loop
SendOf(kind, string) == [kind |-> kind, text |-> string]

\* channel.send rejects an empty message
SendOutcome(string, outcome) == IF string = <<>> THEN "fail" ELSE outcome

\* the loop moves on from segment i: to the next segment's chunks, or past
\* the loop to the filler check
MoveOn(i) ==
    IF i < Len(messageParts)
    THEN /\ partIndex' = i + 1
         /\ pendingChunks' = ProcessedChunks(config, messageParts[i + 1])
         /\ deliverPc' = "send"
    ELSE /\ partIndex' = i
         /\ pendingChunks' = <<>>
         /\ deliverPc' = IF NeedsFiller(messageParts) THEN "filler" ELSE "done"

\* the handler taking every completion, null included, for a text
NeverFalsy(string) == FALSE

\* !aiResponse: the completion is null or the empty string
IsFalsy(string) == string = <<>>

\* await aiServiceProvider.chat(...) settles with a completion and the handler
\* runs on to its next await: a falsy completion goes to the null branch, a
\* blank one to its notice, any other is stored with the user turn, saved and
\* cut into segments
DeliverStart(string, outcome) ==
    LET channelId == turn.channelId
        aiResponseContent == Preprocess(string)
        r == StoreExchange(conversationHistory, file, maxHistorySize, channelId,
                           UserTurn,
                           [role |-> "assistant", content |-> aiResponseContent],
                           outcome)
    IN /\ deliverPc = "chat"
       /\ aiResponse' = string
       /\ IF IsFalsy(string)
          THEN /\ deliverPc' = "null"
               /\ UNCHANGED <<messageParts, partIndex, pendingChunks,
                              conversationHistory, file, last>>
          ELSE IF Trim(aiResponseContent) = <<>>
          THEN /\ deliverPc' = "blank"
               /\ UNCHANGED <<messageParts, partIndex, pendingChunks,
                              conversationHistory, file, last>>
          ELSE /\ conversationHistory' = r.map
               /\ file' = r.file
               /\ last' = Did("exchange", channelId, FALSE, r.saved)
               /\ messageParts' = MessageParts(aiResponseContent)
               /\ IF messageParts' = <<>>
                  THEN /\ deliverPc' = IF NeedsFiller(messageParts')
                                       THEN "filler" ELSE "done"
                       /\ UNCHANGED <<partIndex, pendingChunks>>
                  ELSE /\ partIndex' = 1
                       /\ pendingChunks' = ProcessedChunks(config, messageParts'[1])
                       /\ deliverPc' = "send"
       /\ UNCHANGED <<sends, maxHistorySize, appended, snapshot, routerVars,
                      formatVars, offDeliver>>

\* the null branch: a notice, no history
NullNotice(outcome) ==
    /\ deliverPc = "null"
    /\ sends' = Append(sends,
           SendOf("notice",
                  IF DmUserId(turn.channelId) # "null"
                  THEN <<"I need some information from you before we can chat.">>
                  ELSE <<"I... I don't have a response for that right now.">>))
    /\ deliverPc' = IF outcome = "ok" THEN "done" ELSE "catch"
    /\ UNCHANGED <<aiResponse, messageParts, partIndex, pendingChunks, storeVars,
                   routerVars, formatVars, offDeliver>>

\* the blank branch: a notice, then the user turn and a stand-in for the
\* assistant's are stored and saved
BlankNotice(outcome, written) ==
    LET r == StoreExchange(conversationHistory, file, maxHistorySize, turn.channelId,
                           UserTurn,
                           [role |-> "assistant",
                            content |-> <<"[AI failed to generate a response]">>],
                           written)
    IN /\ deliverPc = "blank"
       /\ sends' = Append(sends,
              SendOf("notice", <<"I... I don't have a response for that right now.">>))
       /\ IF outcome = "ok"
          THEN /\ conversationHistory' = r.map
               /\ file' = r.file
               /\ last' = Did("exchange", turn.channelId, FALSE, r.saved)
               /\ deliverPc' = "done"
          ELSE /\ deliverPc' = "catch"
               /\ UNCHANGED <<conversationHistory, file, last>>
       /\ UNCHANGED <<aiResponse, messageParts, partIndex, pendingChunks,
                      maxHistorySize, appended, snapshot, routerVars, formatVars,
                      offDeliver>>

\* the loop sends the next chunk of segment i; after the segment's last chunk
\* it pauses or moves on
SendChunk(outcome) ==
    LET chunk == Head(pendingChunks)
    IN /\ deliverPc = "send"
       /\ sends' = Append(sends, SendOf("chunk", chunk))
       /\ IF SendOutcome(chunk, outcome) = "fail"
          THEN /\ deliverPc' = "catch"
               /\ UNCHANGED <<partIndex, pendingChunks>>
          ELSE IF Tail(pendingChunks) # <<>>
          THEN /\ pendingChunks' = Tail(pendingChunks)
               /\ UNCHANGED <<partIndex, deliverPc>>
          ELSE IF NeedsDelay(partIndex, Len(messageParts), config.MESSAGE_SPLIT_DELAY_MS)
          THEN /\ deliverPc' = "delay"
               /\ pendingChunks' = <<>>
               /\ UNCHANGED partIndex
          ELSE MoveOn(partIndex)
       /\ UNCHANGED <<aiResponse, messageParts, storeVars, routerVars, formatVars,
                      offDeliver>>

\* the pause after a segment has run out
DelayOver ==
    /\ deliverPc = "delay"
    /\ sends' = Append(sends, SendOf("delay", <<>>))
    /\ MoveOn(partIndex)
    /\ UNCHANGED <<aiResponse, messageParts, storeVars, routerVars, formatVars,
                   offDeliver>>

\* nothing was there to send: the filler
FillerSend(outcome) ==
    /\ deliverPc = "filler"
    /\ sends' = Append(sends,
           SendOf("filler", <<"... (No substantial response generated)">>))
    /\ deliverPc' = IF outcome = "ok" THEN "done" ELSE "catch"
    /\ UNCHANGED <<aiResponse, messageParts, partIndex, pendingChunks, storeVars,
                   routerVars, formatVars, offDeliver>>

\* the catch block tells the user that something went wrong; its own send is
\* awaited outside any try block, so a rejection of it leaves execute
CatchSend(outcome) ==
    /\ deliverPc = "catch"
    /\ sends' = Append(sends,
           SendOf("error", <<"Something unexpected happened">>))
    /\ deliverPc' = IF outcome = "ok" THEN "done" ELSE "thrown"
    /\ UNCHANGED <<aiResponse, messageParts, partIndex, pendingChunks, storeVars,
                   routerVars, formatVars, offDeliver>>

\* the delivery settings of a running bot
DeliverConfigs ==
    [AI_SERVICE : {"OLLAMA"}, OLLAMA_HOST : {TRUE}, OLLAMA_MODEL : {TRUE},
     GEMINI_API_KEY : {FALSE}, GEMINI_MODEL : {TRUE}, ALLOW_EMOJIS : BOOLEAN,
     MESSAGE_CHUNK_SIZE : 1 .. MaxChunk, MESSAGE_SPLIT_DELAY_MS : {0, 1000}]

\* an accepted message has been handed to the provider
InitDeliver ==
    /\ config \in DeliverConfigs
    /\ currentService = "ollama"
    /\ ollamaClient = TRUE
    /\ genAI = FALSE
    /\ geminiChatModel = FALSE
    /\ pc = "ready"
    /\ initCalls = MaxInitCalls
    /\ backendCalls = 1
    /\ call = [op |-> "chat", result |-> "text", invoked |-> TRUE, threw |-> FALSE]
    /\ userInfo = [u \in Users |-> [present |-> TRUE, fields |-> RequiredSet]]
    /\ userInfoFile = [exists |-> TRUE, data |-> userInfo]
    /\ turn \in [pc : {"chat"}, channelId : Channels, answer : {"pending"}]
    /\ outbox = <<>>
    /\ aiResponse = <<>>
    /\ messageParts = <<>>
    /\ deliverPc = "chat"
    /\ partIndex = 0
    /\ pendingChunks = <<>>
    /\ sends = <<>>
    /\ StoreIdle
    /\ FormatIdle
    /\ BackendIdle
    /\ SplitIdle
    /\ ConcurrentIdle

NextDeliver ==
    \/ /\ deliverPc = "chat"
       /\ \E string \in DeliverCompletions, outcome \in WriteOutcomes :
              DeliverStart(string, outcome)
    \/ \E outcome \in WriteOutcomes : NullNotice(outcome)
    \/ \E outcome \in WriteOutcomes, written \in WriteOutcomes : BlankNotice(outcome, written)
    \/ \E outcome \in WriteOutcomes : SendChunk(outcome)
    \/ DelayOver
    \/ \E outcome \in WriteOutcomes : FillerSend(outcome)
    \/ \E outcome \in WriteOutcomes : CatchSend(outcome)

SpecDeliver == InitDeliver /\ [][NextDeliver]_vars

\* the steps that follow the provider's answer, a notice or a rejected send
Settling ==
    \/ /\ deliverPc = "chat"
       /\ \E string \in DeliverCompletions, outcome \in WriteOutcomes :
              DeliverStart(string, outcome)
    \/ \E outcome \in WriteOutcomes : NullNotice(outcome)
    \/ \E outcome \in WriteOutcomes, written \in WriteOutcomes : BlankNotice(outcome, written)
    \/ \E outcome \in WriteOutcomes : FillerSend(outcome)
    \/ \E outcome \in WriteOutcomes : CatchSend(outcome)

\* the steps of the delivery loop
Looping == (\E outcome \in WriteOutcomes : SendChunk(outcome)) \/ DelayOver

\* every await of the handler settles: weak fairness of the handler's steps,
\* that of the loop written out with its enabling condition, which is that
\* the handler is at a send or at a pause of the loop
SpecDeliverFair ==
    /\ SpecDeliver
    /\ WF_vars(Settling)
    /\ ([]<>(deliverPc \notin {"send", "delay"}) \/ []<><<Looping>>_vars)

----------------------------------------------------------------------------
(* Concurrent runs of the message handler (messageCreateHandler.js): every *)
(* MessageCreate event starts a run of execute, and the runs interleave at *)
(* their awaits.                                                           *)

\* number of MessageCreate events followed
MaxEvents == 3

\* the users who write to the bot
Authors == {"1", "2"}

\* the conversation id of a message: the guild channel's id, or dm_<author id>
ConversationIds(author) == {"c1", IF author = "1" THEN "dm_1" ELSE "dm_2"}

\* the user turn stored for the k-th event observed
UserTurnOf(k) == [role |-> "user", content |-> <<<<"m1", "m2", "m3", "m4">>[k]>>]

\* the assistant turn stored for the k-th event observed
AssistantTurnOf(k) == [role |-> "assistant", content |-> <<<<"r1", "r2", "r3", "r4">>[k]>>]

\* the k-th run moves on
At(k, where) == [inbound EXCEPT ![k].pc = where]

\* a MessageCreate event is observed: execute runs up to
\* await commandHandler.handleCommand(message)
Observe(author, channelId) ==
    /\ Len(inbound) < MaxEvents
    /\ inbound' = Append(inbound, [author |-> author, channelId |-> channelId,
                                   pc |-> "command"])
    /\ UNCHANGED <<userCooldowns, storeVars, routerVars, formatVars, offTurns>>

\* the message was no command: the cooldown check, which ends the run when the
\* author is in userCooldowns and otherwise adds the author and sets the
\* timeout that removes them; then the request is built and execute awaits
\* aiServiceProvider.chat
Precheck(k) ==
    /\ k \in DOMAIN inbound
    /\ inbound[k].pc = "command"
    /\ IF inbound[k].author \in userCooldowns
       THEN /\ inbound' = At(k, "ignored")
            /\ UNCHANGED userCooldowns
       ELSE /\ userCooldowns' = userCooldowns \cup {inbound[k].author}
            /\ inbound' = At(k, "chat")
    /\ UNCHANGED <<storeVars, routerVars, formatVars, offTurns>>

\* the timeout set with the cooldown runs out after config.COOLDOWN_TIME
CooldownExpires(author) ==
    /\ author \in userCooldowns
    /\ userCooldowns' = userCooldowns \ {author}
    /\ UNCHANGED <<inbound, storeVars, routerVars, formatVars, offTurns>>

\* aiServiceProvider.chat settles for the k-th run: without a completion the
\* run goes to its notice, with one it stores the exchange, saves and goes on
\* to deliver
ChatSettled(k, answer, outcome) ==
    LET channelId == inbound[k].channelId
        r == StoreExchange(conversationHistory, file, maxHistorySize, channelId,
                           UserTurnOf(k), AssistantTurnOf(k), outcome)
    IN /\ k \in DOMAIN inbound
       /\ inbound[k].pc = "chat"
       /\ IF answer = "null"
          THEN /\ inbound' = At(k, "notice")
               /\ UNCHANGED <<conversationHistory, file, last>>
          ELSE /\ inbound' = At(k, "deliver")
               /\ conversationHistory' = r.map
               /\ file' = r.file
               /\ last' = Did("exchange", channelId, FALSE, r.saved)
       /\ UNCHANGED <<userCooldowns, maxHistorySize, appended, snapshot, routerVars,
                      formatVars, offTurns>>

\* the sends of the run are over and execute returns
ExecuteReturns(k) ==
    /\ k \in DOMAIN inbound
    /\ inbound[k].pc \in {"notice", "deliver"}
    /\ inbound' = At(k, "done")
    /\ UNCHANGED <<userCooldowns, storeVars, routerVars, formatVars, offTurns>>

\* a running bot with an empty history; every author has a complete profile
InitTurns ==
    /\ userCooldowns = {}
    /\ inbound = <<>>
    /\ StoreIdle
    /\ RouterIdle
    /\ FormatIdle
    /\ ProfileIdle
    /\ BackendIdle
    /\ SplitIdle
    /\ DeliverIdle
    /\ SchedIdle

NextTurns ==
    \/ \E author \in Authors : \E channelId \in ConversationIds(author) :
          Observe(author, channelId)
    \/ \E k \in 1 .. MaxEvents : Precheck(k)
    \/ \E author \in Authors : CooldownExpires(author)
    \/ \E k \in 1 .. MaxEvents, answer \in {"null", "text"}, outcome \in WriteOutcomes :
          ChatSettled(k, answer, outcome)
    \/ \E k \in 1 .. MaxEvents : ExecuteReturns(k)

SpecTurns == InitTurns /\ [][NextTurns]_vars

\* a proactive fire whose send went through stores its text in the history of
\* its target; one such fire is followed
ProactiveStores(targetId) ==
    /\ \A c \in DOMAIN conversationHistory :
           \A i \in DOMAIN conversationHistory[c] :
               conversationHistory[c][i] # ProactiveTurn
    /\ conversationHistory' =
           AddMessageToHistory(conversationHistory, maxHistorySize, targetId,
                               ProactiveTurn)
    /\ last' = Did("proactive", targetId, FALSE, "none")
    /\ UNCHANGED <<maxHistorySize, file, appended, snapshot, routerVars, formatVars,
                   pipelineVars>>

\* the runs of the handler interleaved with a proactive fire
NextExchanges ==
    \/ NextTurns
    \/ \E targetId \in {"c1"} : ProactiveStores(targetId)

SpecExchanges == InitTurns /\ [][NextExchanges]_vars

----------------------------------------------------------------------------
(* The proactive scheduler (src/utils/proactiveMessaging.js), the periodic *)
(* save interval of the history store and graceful shutdown (main.js).     *)

\* number of proactive timeouts that fire
MaxFires == 2

\* the values of Math.random() followed, in tenths: 0 and 0.9
Tenths == {0, 9}

\* what aiServiceProvider.js exports
AiServiceProviderExports ==
    {"initialize", "chat", "describeImage", "isImageProcessingAvailable",
     "getCurrentServiceType"}

\* what historyManager.js exports
HistoryManagerExports ==
    {"loadHistory", "saveHistory", "startPeriodicSave", "stopPeriodicSave",
     "getChannelHistory", "updateChannelHistory", "clearChannelHistory",
     "addMessageToHistory", "getRawHistoryMap", "setRawHistoryMap"}

\* the periodic save of the history store: the handle saveIntervalId and the
\* number of interval timers that are live
PeriodicSave == [id |-> saveIntervalId, live |-> intervals]

\* no interval was ever set
NoSaveTimer == [id |-> FALSE, live |-> 0]

SetSaveTimer(t) ==
    /\ saveIntervalId' = t.id
    /\ intervals' = t.live

\* startPeriodicSave setting a new interval without clearing the one it holds
StartWithoutClear(cfg, t) ==
    IF cfg.SAVE_INTERVAL_MS > 0 THEN [id |-> TRUE, live |-> t.live + 1] ELSE t

\* startPeriodicSave: with a positive SAVE_INTERVAL_MS the interval held by
\* the handle is cleared and a new one is set
StartPeriodicSave(cfg, t) ==
    IF cfg.SAVE_INTERVAL_MS > 0
    THEN [id |-> TRUE, live |-> (IF t.id THEN t.live - 1 ELSE t.live) + 1]
    ELSE t

\* stopPeriodicSave
StopPeriodicSave(t) ==
    IF t.id THEN [id |-> FALSE, live |-> t.live - 1] ELSE t

\* value || fallback for a number
OrDefault(value, fallback) == IF value = 0 THEN fallback ELSE value

\* getRandomInterval, in minutes: Math.floor(random * (max - min + 1) + min)
GetRandomInterval(min, max, random) == ((random * (max - min + 1)) + 10 * min) \div 10

\* the interval scheduleNextProactiveMessage draws
NextInterval(cfg, random) ==
    GetRandomInterval(OrDefault(cfg.PROACTIVE_MIN_INTERVAL, 60),
                      OrDefault(cfg.PROACTIVE_MAX_INTERVAL, 240), random)

\* chooseRandomTarget: "null" when no target is configured
ChooseRandomTarget(cfg, random) ==
    IF Len(cfg.PROACTIVE_TARGETS) = 0 THEN "null"
    ELSE cfg.PROACTIVE_TARGETS[((random * Len(cfg.PROACTIVE_TARGETS)) \div 10) + 1]

\* the scheduler's module-level state
Scheduler ==
    [active |-> isProactiveMessagingActive, timer |-> proactiveTimer,
     pending |-> pendingTimers]

SetScheduler(sch) ==
    /\ isProactiveMessagingActive' = sch.active
    /\ proactiveTimer' = sch.timer
    /\ pendingTimers' = sch.pending

\* clearTimeout(proactiveTimer): the handle is that of the timeout set last; a
\* timeout that has fired or was cleared is left alone
ClearTimeout(sch) ==
    IF sch.timer = "pending"
    THEN [sch EXCEPT !.timer = "stale",
                     !.pending = SubSeq(sch.pending, 1, Len(sch.pending) - 1)]
    ELSE sch

\* scheduleNextProactiveMessage
ScheduleNextProactiveMessage(cfg, sch, random) ==
    LET cleared == IF sch.timer # "null" THEN ClearTimeout(sch) ELSE sch
    IN IF ~cfg.ENABLE_PROACTIVE_MESSAGING THEN cleared
       ELSE [cleared EXCEPT !.timer = "pending",
                            !.pending = Append(cleared.pending, NextInterval(cfg, random))]

\* startProactiveMessaging without the check that it is already active
StartWithoutActiveCheck(cfg, sch, random) ==
    IF ~cfg.ENABLE_PROACTIVE_MESSAGING THEN [sch |-> sch, noop |-> TRUE]
    ELSE IF Len(cfg.PROACTIVE_TARGETS) = 0 THEN [sch |-> sch, noop |-> TRUE]
    ELSE [sch |-> ScheduleNextProactiveMessage(cfg, [sch EXCEPT !.active = TRUE], random),
          noop |-> FALSE]

\* startProactiveMessaging: the scheduler after the call, and whether the call
\* returned early
StartProactiveMessaging(cfg, sch, random) ==
    IF ~cfg.ENABLE_PROACTIVE_MESSAGING THEN [sch |-> sch, noop |-> TRUE]
    ELSE IF Len(cfg.PROACTIVE_TARGETS) = 0 THEN [sch |-> sch, noop |-> TRUE]
    ELSE IF sch.active THEN [sch |-> sch, noop |-> TRUE]
    ELSE [sch |-> ScheduleNextProactiveMessage(cfg, [sch EXCEPT !.active = TRUE], random),
          noop |-> FALSE]

\* stopProactiveMessaging leaving the timeout set
StopKeepsTimer(sch) == [sch EXCEPT !.active = FALSE]

\* stopProactiveMessaging
StopProactiveMessaging(sch) ==
    LET cleared == IF sch.timer # "null"
                   THEN [ClearTimeout(sch) EXCEPT !.timer = "null"]
                   ELSE sch
    IN [cleared EXCEPT !.active = FALSE]

\* generateProactiveMessage: the call of historyManager.getConversationByChannelId
\* or of aiServiceProvider.generateResponse throws when the module exports no
\* such function, an empty completion throws too, and the catch returns one
\* of config.PROACTIVE_FALLBACK_MESSAGES
GenerateProactiveMessage(cfg, completion, random) ==
    LET fallback ==
            cfg.PROACTIVE_FALLBACK_MESSAGES[
                ((random * Len(cfg.PROACTIVE_FALLBACK_MESSAGES)) \div 10) + 1]
    IN IF "getConversationByChannelId" \notin HistoryManagerExports
       THEN [message |-> fallback, routed |-> FALSE]
       ELSE IF "generateResponse" \notin AiServiceProviderExports
       THEN [message |-> fallback, routed |-> FALSE]
       ELSE IF completion = <<>>
       THEN [message |-> fallback, routed |-> TRUE]
       ELSE [message |-> completion, routed |-> TRUE]

\* the turn a fire stores for the text it sent
ProactiveTurnOf(message) ==
    [role |-> "assistant", content |-> message, timestamp |-> <<"t">>]

\* the history after target.send settled, with the turn stored whatever the
\* outcome of the send
StoreWhateverSent(map, size, targetId, message, outcome) ==
    AddMessageToHistory(map, size, targetId, ProactiveTurnOf(message))

\* the history after target.send settled: a rejected send skips the append
StoreIfSent(map, size, targetId, message, outcome) ==
    IF outcome = "ok"
    THEN AddMessageToHistory(map, size, targetId, ProactiveTurnOf(message))
    ELSE map

\* the scheduler's last step
Step(op, noop, fire) == [op |-> op, noop |-> noop, fire |-> fire]

\* the process is running and logged in
Alive == pc = "ready"

\* the sequence without its k-th element
Without(s, k) == SubSeq(s, 1, k - 1) \o SubSeq(s, k + 1, Len(s))

\* a sendProactiveMessage call that has reached its first await
NewFire(id, targetId) ==
    [id |-> id, pc |-> "fetch", targetId |-> targetId, message |-> <<>>,
     completion |-> <<>>, routed |-> FALSE]

\* the ClientReady handler: initialize(), loadHistory, startPeriodicSave and,
\* when proactive messaging is enabled, startProactiveMessaging
ClientReady(fault, random) ==
    LET r == Initialize(config, ServiceState, fault)
        started == StartProactiveMessaging(config, Scheduler, random)
    IN /\ pc = "login"
       /\ SetServices(r.st)
       /\ initCalls' = initCalls + 1
       /\ call' = [op |-> "initialize", result |-> BoolText(r.ret),
                   invoked |-> FALSE, threw |-> FALSE]
       /\ conversationHistory' = LoadHistory(file).map
       /\ SetSaveTimer(StartPeriodicSave(config, PeriodicSave))
       /\ IF config.ENABLE_PROACTIVE_MESSAGING
          THEN SetScheduler(started.sch)
          ELSE UNCHANGED <<isProactiveMessagingActive, proactiveTimer, pendingTimers>>
       /\ schedLast' = Step("ready", FALSE, 0)
       /\ pc' = "ready"
       /\ UNCHANGED <<config, backendCalls, maxHistorySize, file, last, appended,
                      snapshot, fires, fireCount, proactiveSends, formatVars, offSched>>

\* a caller invokes startProactiveMessaging
StartCall(random) ==
    LET started == StartProactiveMessaging(config, Scheduler, random)
    IN /\ Alive
       /\ SetScheduler(started.sch)
       /\ schedLast' = Step("start", started.noop, 0)
       /\ UNCHANGED <<fires, fireCount, proactiveSends, saveIntervalId, intervals, storeVars,
                      routerVars, formatVars, offSched>>

\* a caller invokes stopProactiveMessaging
StopCall ==
    /\ Alive
    /\ SetScheduler(StopProactiveMessaging(Scheduler))
    /\ schedLast' = Step("stop", FALSE, 0)
    /\ UNCHANGED <<fires, fireCount, proactiveSends, saveIntervalId, intervals, storeVars,
                   routerVars, formatVars, offSched>>

\* the k-th pending timeout runs out: sendProactiveMessage runs up to its
\* await of client.users.fetch or client.channels.fetch, or returns at once
\* when the scheduler is not active or no target is configured
TimerFires(k, random) ==
    LET targetId == ChooseRandomTarget(config, random)
    IN /\ Alive
       /\ k \in DOMAIN pendingTimers
       /\ fireCount < MaxFires
       /\ fireCount' = fireCount + 1
       /\ pendingTimers' = Without(pendingTimers, k)
       /\ proactiveTimer' = IF proactiveTimer = "pending" /\ k = Len(pendingTimers)
                            THEN "stale" ELSE proactiveTimer
       /\ fires' = IF ~isProactiveMessagingActive \/ ~config.ENABLE_PROACTIVE_MESSAGING
                   THEN fires
                   ELSE IF targetId = "null" THEN fires
                   ELSE Append(fires, NewFire(fireCount + 1, targetId))
       /\ schedLast' = Step("fire", FALSE, fireCount + 1)
       /\ UNCHANGED <<isProactiveMessagingActive, proactiveSends, saveIntervalId, intervals,
                      storeVars, routerVars, formatVars, offSched>>

\* the fetch of the target settles: a failed resolution ends the call; a draw
\* above PROACTIVE_CHANCE schedules the next timeout and ends it; otherwise
\* generateProactiveMessage runs and the call awaits its result
FetchSettles(i, outcome, draw, random, completion) ==
    LET generated == GenerateProactiveMessage(config, completion, random)
    IN /\ Alive
       /\ i \in DOMAIN fires
       /\ fires[i].pc = "fetch"
       /\ IF outcome # "ok"
          THEN /\ fires' = Without(fires, i)
               /\ schedLast' = Step("unresolved", FALSE, fires[i].id)
               /\ UNCHANGED <<isProactiveMessagingActive, proactiveTimer, pendingTimers>>
          ELSE IF draw > config.PROACTIVE_CHANCE
          THEN /\ fires' = Without(fires, i)
               /\ schedLast' = Step("skipped", FALSE, fires[i].id)
               /\ SetScheduler(ScheduleNextProactiveMessage(config, Scheduler, random))
          ELSE /\ fires' = [fires EXCEPT ![i] =
                               [@ EXCEPT !.pc = "generate",
                                         !.message = generated.message,
                                         !.completion = completion,
                                         !.routed = generated.routed]]
               /\ schedLast' = Step("generating", FALSE, fires[i].id)
               /\ UNCHANGED <<isProactiveMessagingActive, proactiveTimer, pendingTimers>>
       /\ UNCHANGED <<fireCount, proactiveSends, saveIntervalId, intervals, storeVars, routerVars,
                      formatVars, offSched>>

\* generateProactiveMessage has returned: the call issues target.send(message)
GenerateSettles(i) ==
    /\ Alive
    /\ i \in DOMAIN fires
    /\ fires[i].pc = "generate"
    /\ proactiveSends' =
           Append(proactiveSends,
                  [fire |-> fires[i].id, targetId |-> fires[i].targetId,
                   text |-> fires[i].message, completion |-> fires[i].completion,
                   routed |-> fires[i].routed,
                   routerActive |-> currentService # "null"])
    /\ fires' = [fires EXCEPT ![i].pc = "send"]
    /\ schedLast' = Step("sending", FALSE, fires[i].id)
    /\ UNCHANGED <<isProactiveMessagingActive, proactiveTimer, pendingTimers, fireCount,
                   saveIntervalId, intervals, storeVars, routerVars, formatVars, offSched>>

\* target.send settles: after a send that went through the text is appended
\* to the target's history; in both cases the next timeout is scheduled
SendSettles(i, outcome, random) ==
    /\ Alive
    /\ i \in DOMAIN fires
    /\ fires[i].pc = "send"
    /\ conversationHistory' =
           StoreIfSent(conversationHistory, maxHistorySize, fires[i].targetId,
                       fires[i].message, outcome)
    /\ SetScheduler(ScheduleNextProactiveMessage(config, Scheduler, random))
    /\ fires' = Without(fires, i)
    /\ schedLast' = Step(IF outcome = "ok" THEN "sent" ELSE "unsent", FALSE, fires[i].id)
    /\ UNCHANGED <<fireCount, proactiveSends, saveIntervalId, intervals, maxHistorySize, file, last,
                   appended, snapshot, routerVars, formatVars, offSched>>

\* the periodic save interval runs saveHistory
IntervalSave(outcome) ==
    LET saved == SaveHistory(conversationHistory, file, outcome)
    IN /\ pc \in {"login", "ready"}
       /\ intervals > 0
       /\ file' = saved.file
       /\ last' = Did("save", "none", FALSE, saved.saved)
       /\ schedLast' = Step("save", FALSE, 0)
       /\ UNCHANGED <<isProactiveMessagingActive, proactiveTimer, pendingTimers, fires,
                      fireCount, proactiveSends, saveIntervalId, intervals, maxHistorySize,
                      conversationHistory, appended, snapshot, routerVars, formatVars,
                      offSched>>

\* SIGINT or SIGTERM: shutdown stops the periodic save, stops proactive
\* messaging when it is enabled, saves the history and exits
GracefulShutdown(outcome) ==
    LET saved == SaveHistory(conversationHistory, file, outcome)
    IN /\ pc \in {"login", "ready"}
       /\ SetSaveTimer(StopPeriodicSave(PeriodicSave))
       /\ IF config.ENABLE_PROACTIVE_MESSAGING
          THEN SetScheduler(StopProactiveMessaging(Scheduler))
          ELSE UNCHANGED <<isProactiveMessagingActive, proactiveTimer, pendingTimers>>
       /\ file' = saved.file
       /\ last' = Did("save", "none", FALSE, saved.saved)
       /\ schedLast' = Step("shutdown", FALSE, 0)
       /\ pc' = "exited"
       /\ UNCHANGED <<config, currentService, ollamaClient, genAI, geminiChatModel,
                      initCalls, backendCalls, call, fires, fireCount, proactiveSends,
                      maxHistorySize, conversationHistory, appended, snapshot,
                      formatVars, offSched>>

\* the proactive and save settings a process can start with; chances are in
\* tenths
SchedConfigs ==
    [AI_SERVICE : {"OLLAMA"}, OLLAMA_HOST : {TRUE}, OLLAMA_MODEL : {TRUE},
     GEMINI_API_KEY : {FALSE}, GEMINI_MODEL : {TRUE},
     ENABLE_PROACTIVE_MESSAGING : BOOLEAN,
     PROACTIVE_TARGETS : {<<>>, <<"c1", "dm_1">>},
     PROACTIVE_CHANCE : {0, 5},
     PROACTIVE_MIN_INTERVAL : {1},
     PROACTIVE_MAX_INTERVAL : {2},
     PROACTIVE_FALLBACK_MESSAGES : {<< <<"f1">>, <<"f2">> >>},
     SAVE_INTERVAL_MS : {1000}]

\* what the backend would answer to a proactive prompt
ProactiveCompletions == {<<"b">>}

\* the history files the process found at startup
SchedFiles == {MissingFile, TextFile("object", [k \in {"c1"} |-> <<AssistantTurn>>])}

\* main.js has run: the router is initialized, the history is loaded, the
\* periodic save is started and the client is logging in
InitSched ==
    /\ config \in SchedConfigs
    /\ currentService = "ollama"
    /\ ollamaClient = TRUE
    /\ genAI = FALSE
    /\ geminiChatModel = FALSE
    /\ pc = "login"
    /\ initCalls = 1
    /\ backendCalls = 0
    /\ call = NoCall
    /\ maxHistorySize \in {-1, 0}
    /\ file \in SchedFiles
    /\ conversationHistory = LoadHistory(file).map
    /\ last = NoOp
    /\ appended = NoLog
    /\ snapshot = EmptyMap
    /\ isProactiveMessagingActive = FALSE
    /\ proactiveTimer = "null"
    /\ pendingTimers = <<>>
    /\ fires = <<>>
    /\ fireCount = 0
    /\ proactiveSends = <<>>
    /\ saveIntervalId = StartPeriodicSave(config, NoSaveTimer).id
    /\ intervals = StartPeriodicSave(config, NoSaveTimer).live
    /\ schedLast = NoStep
    /\ FormatIdle
    /\ ProfileIdle
    /\ BackendIdle
    /\ SplitIdle
    /\ DeliverIdle
    /\ TurnsIdle

NextSched ==
    \/ \E random \in Tenths : ClientReady("none", random)
    \/ \E random \in Tenths : StartCall(random)
    \/ StopCall
    \/ \E k \in 1 .. MaxFires, random \in Tenths : TimerFires(k, random)
    \/ \E i \in 1 .. MaxFires, outcome \in {"ok", "null", "throw"}, draw \in Tenths,
          random \in Tenths, completion \in ProactiveCompletions :
          FetchSettles(i, outcome, draw, random, completion)
    \/ \E i \in 1 .. MaxFires : GenerateSettles(i)
    \/ \E i \in 1 .. MaxFires, outcome \in WriteOutcomes, random \in Tenths :
          SendSettles(i, outcome, random)
    \/ \E outcome \in WriteOutcomes : IntervalSave(outcome)
    \/ \E outcome \in WriteOutcomes : GracefulShutdown(outcome)

SpecSched == InitSched /\ [][NextSched]_vars

----------------------------------------------------------------------------
(* The periodic save of the history store (historyManager.js): main.js and *)
(* the ready handler call startPeriodicSave, shutdown calls                *)
(* stopPeriodicSave, and every live interval calls saveHistory.            *)

\* a caller invokes startPeriodicSave
StartPeriodicSaveCall ==
    /\ Alive \/ pc = "login"
    /\ SetSaveTimer(StartPeriodicSave(config, PeriodicSave))
    /\ schedLast' = Step(IF config.SAVE_INTERVAL_MS > 0 /\ saveIntervalId
                         THEN "restartSave" ELSE "startSave", FALSE, 0)
    /\ UNCHANGED <<isProactiveMessagingActive, proactiveTimer, pendingTimers, fires,
                   fireCount, proactiveSends, storeVars, routerVars, formatVars,
                   offSched>>

\* a caller invokes stopPeriodicSave
StopPeriodicSaveCall ==
    /\ Alive \/ pc = "login"
    /\ SetSaveTimer(StopPeriodicSave(PeriodicSave))
    /\ schedLast' = Step("stopSave", FALSE, 0)
    /\ UNCHANGED <<isProactiveMessagingActive, proactiveTimer, pendingTimers, fires,
                   fireCount, proactiveSends, storeVars, routerVars, formatVars,
                   offSched>>

\* SAVE_INTERVAL_MS as configured: negative, zero or positive
FlushConfigs ==
    {[c EXCEPT !.SAVE_INTERVAL_MS = ms] :
        c \in {d \in SchedConfigs : ~d.ENABLE_PROACTIVE_MESSAGING /\ d.PROACTIVE_CHANCE = 0
                                    /\ d.PROACTIVE_TARGETS = <<>>},
        ms \in {-1, 0, 1000}}

\* main.js has loaded the history and is about to call startPeriodicSave
InitFlush ==
    /\ config \in FlushConfigs
    /\ currentService = "ollama"
    /\ ollamaClient = TRUE
    /\ genAI = FALSE
    /\ geminiChatModel = FALSE
    /\ pc = "login"
    /\ initCalls = 1
    /\ backendCalls = 0
    /\ call = NoCall
    /\ maxHistorySize \in {-1, 0}
    /\ file \in SchedFiles
    /\ conversationHistory = LoadHistory(file).map
    /\ last = NoOp
    /\ appended = NoLog
    /\ snapshot = EmptyMap
    /\ FormatIdle
    /\ PipelineIdle

NextFlush ==
    \/ StartPeriodicSaveCall
    \/ StopPeriodicSaveCall
    \/ \E outcome \in WriteOutcomes : IntervalSave(outcome)
    \/ \E c \in Channels, outcome \in WriteOutcomes : Exchange(c, outcome)

SpecFlush == InitFlush /\ [][NextFlush]_vars

----------------------------------------------------------------------------
(* The interval scheduleNextProactiveMessage draws (proactiveMessaging.js) *)
(* for the configured bounds and the value of Math.random().               *)

\* the largest number of minutes configured
MaxMinutes == 5

\* the values of Math.random() followed, in tenths: 0, 0.1, ... 0.9
Draws == 0 .. 9

\* a fire, or the start of the scheduler, calls scheduleNextProactiveMessage
ScheduleCall(random) ==
    /\ Alive
    /\ SetScheduler(ScheduleNextProactiveMessage(config, Scheduler, random))
    /\ schedLast' = Step("schedule", FALSE, 0)
    /\ UNCHANGED <<fires, fireCount, proactiveSends, saveIntervalId, intervals,
                   storeVars, routerVars, formatVars, offSched>>

\* the pairs of integer bounds with 0 <= min <= max
IntervalBounds ==
    {b \in (0 .. MaxMinutes) \X (0 .. MaxMinutes) : b[1] <= b[2]}

\* proactive messaging enabled with such bounds
IntervalConfigs ==
    {[c EXCEPT !.PROACTIVE_MIN_INTERVAL = b[1], !.PROACTIVE_MAX_INTERVAL = b[2]] :
        c \in {d \in SchedConfigs : /\ d.ENABLE_PROACTIVE_MESSAGING
                                    /\ d.PROACTIVE_CHANCE = 5
                                    /\ d.PROACTIVE_TARGETS # <<>>},
        b \in IntervalBounds}

\* the bot is ready and the scheduler is about to schedule a timer
InitInterval ==
    /\ config \in IntervalConfigs
    /\ currentService = "ollama"
    /\ ollamaClient = TRUE
    /\ genAI = FALSE
    /\ geminiChatModel = FALSE
    /\ pc = "ready"
    /\ initCalls = 1
    /\ backendCalls = 0
    /\ call = NoCall
    /\ StoreIdle
    /\ FormatIdle
    /\ ProfileIdle
    /\ BackendIdle
    /\ SplitIdle
    /\ DeliverIdle
    /\ TurnsIdle
    /\ isProactiveMessagingActive = TRUE
    /\ proactiveTimer = "null"
    /\ pendingTimers = <<>>
    /\ fires = <<>>
    /\ fireCount = 0
    /\ proactiveSends = <<>>
    /\ saveIntervalId = FALSE
    /\ intervals = 0
    /\ schedLast = NoStep

NextDraw == \E random \in Draws : ScheduleCall(random)

SpecInterval == InitInterval /\ [][NextDraw]_vars

----------------------------------------------------------------------------
(* The request window of a turn (messageCreateHandler.js): the messages    *)
(* the handler hands to aiServiceProvider.chat.                            *)

\* the user turn of the message being handled
NewUserTurn == [role |-> "user", content |-> <<"new">>]

\* Math.max(0, n)
AtLeastZero(n) == IF n < 0 THEN 0 ELSE n

\* the handler taking the last MAX_HISTORY_SIZE stored turns
HistorySliceTakesAll(size, currentChannelHistory) ==
    IF size = -1 THEN currentChannelHistory
    ELSE IF size > 0
    THEN SliceFrom(currentChannelHistory, AtLeastZero(Len(currentChannelHistory) - size))
    ELSE <<>>

\* historySliceForAI: everything under -1, the last MAX_HISTORY_SIZE - 1
\* stored turns under a positive size, nothing under 0
HistorySliceForAI(size, currentChannelHistory) ==
    IF size = -1 THEN currentChannelHistory
    ELSE IF size > 0
    THEN SliceFrom(currentChannelHistory,
                   AtLeastZero(Len(currentChannelHistory) - (size - 1)))
    ELSE <<>>

\* messagesForOllama: the system prompt when the service is OLLAMA and one is
\* configured, the slice of the history, the user turn
MessagesForAI(cfg, size, currentChannelHistory, userTurn) ==
    (IF cfg.AI_SERVICE = "OLLAMA" /\ cfg.OLLAMA_SYSTEM_PROMPT # <<>>
     THEN <<[role |-> "system", content |-> cfg.OLLAMA_SYSTEM_PROMPT]>>
     ELSE <<>>)
    \o HistorySliceForAI(size, currentChannelHistory)
    \o <<userTurn>>

\* the handler builds the window of a message on the channel and calls
\* aiServiceProvider.chat with it
WindowBuilt(channelId) ==
    /\ chatArgs = NoArgs
    /\ chatArgs' = [op |-> "chat",
                    messages |-> MessagesForAI(config, maxHistorySize,
                                     GetChannelHistory(conversationHistory, channelId),
                                     NewUserTurn),
                    channelId |-> channelId, image |-> FALSE]
    /\ UNCHANGED <<request, reply, storeVars, routerVars, formatVars, offBackend>>

\* either service, with or without a system prompt
WindowConfigs ==
    [AI_SERVICE : {"OLLAMA", "GEMINI"}, OLLAMA_HOST : {TRUE}, OLLAMA_MODEL : {TRUE},
     GEMINI_API_KEY : {TRUE}, GEMINI_MODEL : {TRUE},
     OLLAMA_SYSTEM_PROMPT : {<<>>, <<"s">>}]

\* a running bot whose store holds a history for the guild channel, written
\* under this MAX_HISTORY_SIZE or loaded from a file written under another
InitWindow ==
    /\ maxHistorySize \in HistorySizes
    /\ conversationHistory \in {EmptyMap} \cup {[k \in {"c1"} |-> h] : h \in Histories}
    /\ file = MissingFile
    /\ last = NoOp
    /\ appended = NoLog
    /\ snapshot = EmptyMap
    /\ config \in WindowConfigs
    /\ currentService = (IF config.AI_SERVICE = "OLLAMA" THEN "ollama" ELSE "gemini")
    /\ ollamaClient = (config.AI_SERVICE = "OLLAMA")
    /\ genAI = (config.AI_SERVICE = "GEMINI")
    /\ geminiChatModel = (config.AI_SERVICE = "GEMINI")
    /\ pc = "ready"
    /\ initCalls = 1
    /\ backendCalls = 0
    /\ call = NoCall
    /\ FormatIdle
    /\ PipelineIdle

NextWindow == \E channelId \in Channels : WindowBuilt(channelId)

SpecWindow == InitWindow /\ [][NextWindow]_vars

----------------------------------------------------------------------------
(* Claims about the history store.                                         *)

Min(a, b) == IF a < b THEN a ELSE b

\* the file holds exactly the mapping: its text is the mapping's serialization,
\* or there is no file and the mapping is empty
FileHolds(f, map) ==
    IF ExistsSync(f) THEN f = StringifyMap(map) ELSE DOMAIN map = {}

\* C1: under Bounded(N), after any sequence of addMessageToHistory calls on an
\* empty store, each channel's history has at most N turns and is exactly the
\* last min(N, k) of the k turns appended to it, in append order.
C1_BoundedKeepsMostRecent ==
    \A c \in Channels :
        LET history == GetChannelHistory(conversationHistory, c)
            k == Len(appended[c])
            kept == Min(maxHistorySize, k)
        IN /\ Len(history) <= maxHistorySize
           /\ history = SubSeq(appended[c], k - kept + 1, k)

\* Bounded(2), appends A, B, C: the history is [B, C]
C1_Witness ==
    /\ maxHistorySize = 2
    /\ appended["c1"] = <<UserTurn, AssistantTurn, ProactiveTurn>>
    /\ GetChannelHistory(conversationHistory, "c1") = <<AssistantTurn, ProactiveTurn>>

\* C2: under OneShot (MAX_HISTORY_SIZE = 0), right after an operation that
\* called addMessageToHistory for a channel, getChannelHistory for that channel
\* is empty, whatever the store held for it before.
C2_OneShotEmptyAfterAppend ==
    (maxHistorySize = 0 /\ last.op \in {"exchange", "proactive"}) =>
        GetChannelHistory(conversationHistory, last.ch) = <<>>

\* one-shot, a proactive append to c1 after a load that brought in entries for
\* c1 and dm_1: c1's entry is gone, dm_1's is still there
C2_Witness ==
    /\ maxHistorySize = 0
    /\ last.op = "proactive"
    /\ last.ch = "c1"
    /\ file.kind = "object"
    /\ MapHas(file.props, "c1")
    /\ Len(file.props["c1"]) > 0
    /\ MapHas(conversationHistory, "dm_1")
    /\ ~MapHas(conversationHistory, "c1")

\* C3 (as claimed): under Bounded(N) no history in the store is ever longer
\* than N, whatever sequence of load, append, backfill, clear and proactive
\* append led there.
C3_LengthNeverExceedsN ==
    maxHistorySize > 0 =>
        \A k \in DOMAIN conversationHistory :
            Len(conversationHistory[k]) <= maxHistorySize

C5_ClearContract ==
    [][\A c \in Channels :
          (last'.op = "clear" /\ last'.ch = c) =>
              /\ last'.ret = MapHas(conversationHistory, c)
              /\ ~MapHas(conversationHistory', c)
              /\ DOMAIN conversationHistory' = DOMAIN conversationHistory \ {c}
              /\ \A k \in DOMAIN conversationHistory' :
                     conversationHistory'[k] = conversationHistory[k]
              /\ last'.ret => last'.saved \in {"written", "skipped", "failed"}
              /\ (last'.ret /\ last'.saved # "failed") =>
                     FileHolds(file', conversationHistory')]_vars

\* a clear of c1 that returned true, left dm_1's history in place and wrote
\* the file
C5_Witness ==
    /\ last.op = "clear"
    /\ last.ch = "c1"
    /\ last.ret
    /\ last.saved = "written"
    /\ MapHas(conversationHistory, "dm_1")
    /\ Len(conversationHistory["dm_1"]) = 2
    /\ file = StringifyMap(conversationHistory)

\* C6 (as claimed): loadHistory never raises, and when the file is missing,
\* unreadable, not valid JSON or JSON that is not an object, the store ends as
\* the empty mapping.
C6_LoadToleratesMalformed ==
    last.op = "load" =>
        /\ ~last.threw
        /\ (file.status # "ok" \/ file.kind # "object") =>
               conversationHistory = EmptyMap

\* C7: a saveHistory whose write fails raises nothing and leaves the in-memory
\* mapping as it was; a saveHistory that writes, writes the whole mapping now
\* in memory, so nothing appended since an earlier failure is missing from the
\* file.
C7_SaveFailureKeepsMemory ==
    [][/\ (last'.op = "save" /\ last'.saved = "failed") =>
              /\ ~last'.threw
              /\ conversationHistory' = conversationHistory
       /\ last'.saved = "written" => file' = StringifyMap(conversationHistory')]_vars

\* a periodic save has just failed: the store still holds a conversation the
\* file does not
C7_Witness ==
    /\ last.op = "save"
    /\ last.saved = "failed"
    /\ ~last.threw
    /\ MapHas(conversationHistory, "c1")
    /\ Len(conversationHistory["c1"]) = 2
    /\ ~FileHolds(file, conversationHistory)

----------------------------------------------------------------------------
(* Claims about the router.                                                *)

\* C8: while the router holds no successfully initialized provider
\* (initialize never called, failed, or AI_SERVICE unsupported), chat and
\* describeImage return null, throw nothing and call no backend.
C8_NoProviderFailsFast ==
    [][(call'.op \in {"chat", "describeImage"} /\ currentService = "null") =>
          /\ call'.result = "null"
          /\ ~call'.threw
          /\ ~call'.invoked
          /\ backendCalls' = backendCalls]_vars

\* chat answered null after two failed initialize() calls under GEMINI, the
\* last one having thrown in getGenerativeModel
C8_Witness ==
    /\ call.op = "chat"
    /\ call.result = "null"
    /\ ~call.invoked
    /\ config.AI_SERVICE = "GEMINI"
    /\ initCalls = 2
    /\ currentService = "null"
    /\ genAI
    /\ ~geminiChatModel
    /\ backendCalls = 0

\* Uninitialized until the first initialize() has completed; then Active when
\* the router holds an available service, Unavailable otherwise
RouterState ==
    IF initCalls = 0 THEN "Uninitialized"
    ELSE IF currentService # "null" /\ IsAvailable(ServiceState) THEN "Active"
    ELSE "Unavailable"

\* C9: once the first initialize() has completed the router's state never
\* changes again: no step of the process, the ready handler's second
\* initialize() included, takes it from Unavailable to Active or from Active to
\* Unavailable.
C9_SingleTransition ==
    [][RouterState # "Uninitialized" => RouterState' = RouterState]_vars

\* the ready handler's initialize() returned false (a constructor threw) and
\* the router is still Active
C9_Witness ==
    /\ pc = "ready"
    /\ initCalls = 2
    /\ call.op = "initialize"
    /\ call.result = "false"
    /\ RouterState = "Active"

----------------------------------------------------------------------------
(* Claims about formatMessagesForGemini.                                   *)

\* the input as (mapped role, text) pairs
MappedInput(msgs) ==
    [i \in 1 .. Len(msgs) |->
        [role |-> GeminiRole(msgs[i].role), text |-> msgs[i].content]]

\* the parts of the output turns, in order, each with its turn's role
RECURSIVE FlattenTurns(_)
FlattenTurns(out) ==
    IF out = <<>> THEN <<>>
    ELSE [j \in 1 .. Len(Head(out).parts) |->
             [role |-> Head(out).role, text |-> Head(out).parts[j].text]]
         \o FlattenTurns(Tail(out))

RolesOf(seq) == [i \in 1 .. Len(seq) |-> seq[i].role]

\* C10 (as claimed): the output is the input with assistant mapped to model and
\* every other role to user, cut into one turn per maximal run of equal mapped
\* roles, turns and parts in input order; input roles [user, user, assistant,
\* assistant, user] give output roles [user, model, user].
C10_OneTurnPerRun ==
    formatted =>
        /\ FlattenTurns(geminiMessages) = MappedInput(messages)
        /\ \A i \in DOMAIN geminiMessages : Len(geminiMessages[i].parts) >= 1
        /\ \A i \in 1 .. Len(geminiMessages) - 1 :
               geminiMessages[i].role # geminiMessages[i + 1].role
        /\ RolesOf(messages) = <<"user", "user", "assistant", "assistant", "user">> =>
               RolesOf(geminiMessages) = <<"user", "model", "user">>

\* a text with something left after trimming
HasText(text) == Trim(text) # <<>>

\* C11 (as claimed): for every input, empty and whitespace-only texts
\* included, no two adjacent output turns share a role, and only the parts
\* without text are dropped: the parts of the output, in order, are exactly the
\* input turns that have text.
C11_AlternatesAndKeepsText ==
    formatted =>
        /\ \A i \in 1 .. Len(geminiMessages) - 1 :
               geminiMessages[i].role # geminiMessages[i + 1].role
        /\ FlattenTurns(geminiMessages) =
               SelectSeq(MappedInput(messages), LAMBDA m : HasText(m.text))

----------------------------------------------------------------------------
(* Claims about profiles and private conversations.                        *)

\* the conversation the handler's step belongs to
StepChannel == IF turn.pc = "idle" THEN turn'.channelId ELSE turn.channelId

\* the conversation is a private one whose user has no complete profile
Incomplete(info, channelId) ==
    /\ DmUserId(channelId) # "null"
    /\ ~IsUserInfoComplete(info, DmUserId(channelId))

\* C12: for a private conversation dm_<userId> whose user's profile is absent
\* or lacks a required field, no step the handler takes for an inbound turn
\* sends a backend request or changes that conversation's history, and
\* geminiService.chat called for that conversation returns the instruction
\* text listing exactly the missing required fields without calling the backend
C12_IncompleteProfileNoBackend ==
    [][/\ (turn' # turn /\ Incomplete(userInfo', StepChannel))
           => /\ backendCalls' = backendCalls
              /\ GetChannelHistory(conversationHistory', StepChannel) =
                     GetChannelHistory(conversationHistory, StepChannel)
       /\ (call' # call /\ call'.op = "geminiChat"
               /\ Incomplete(userInfo, call'.channelId))
           => /\ backendCalls' = backendCalls
              /\ call'.result = "instruction"
              /\ call'.fields = GetMissingFields(userInfo, DmUserId(call'.channelId))
      ]_vars

\* C13: the history of a private conversation dm_<userId> gains a turn only
\* while that user's profile holds every required field, whichever path
\* appends the turn
C13_HistoryOnlyWithProfile ==
    [][\A c \in Channels :
           (/\ DmUserId(c) # "null"
            /\ GetChannelHistory(conversationHistory', c) # <<>>
            /\ GetChannelHistory(conversationHistory', c) #
                   GetChannelHistory(conversationHistory, c))
               => IsUserInfoComplete(userInfo, DmUserId(c))
      ]_vars

----------------------------------------------------------------------------
(* Claims about the service calls.                                         *)

\* the conversation a chat request transmits: the history option, then the
\* message sent as the current user turn
Transmitted ==
    request.history \o <<[role |-> "user", parts |-> <<[text |-> request.message]>>]>>

\* how many parts of the conversation open with the bracketed instruction tag
TaggedParts(conversation) ==
    Cardinality({i \in DOMAIN FlattenTurns(conversation) :
        /\ FlattenTurns(conversation)[i].text # <<>>
        /\ Head(FlattenTurns(conversation)[i].text) = "[SYSTEM INSTRUCTION: "})

\* C14: under a model whose name contains gemini-2 or flash-preview and with a
\* system instruction configured, every chat request carries the instruction
\* exactly once, bracketed and put before the final text part of the first
\* user turn of the transmitted conversation (the current turn when the
\* history has no user turn), and never as the systemInstruction option
C14_InstructionOnFirstUserTurn ==
    (/\ chatArgs.op = "geminiChat"
     /\ request.sent
     /\ config.GEMINI_2X
     /\ config.GEMINI_SYSTEM_INSTRUCTION # <<>>)
        => LET firstUser == Transmitted[FirstUserTurn(Transmitted)]
               lastText == firstUser.parts[Len(firstUser.parts)].text
               tag == Bracketed(SystemInstructionFor(config, userInfo,
                                                     chatArgs.channelId))
           IN /\ request.systemInstruction = <<>>
              /\ TaggedParts(Transmitted) = 1
              /\ Len(lastText) >= Len(tag)
              /\ SubSeq(lastText, 1, Len(tag)) = tag

\* C15: a service call never rejects; when its backend call failed (it threw,
\* connection refused and unknown model included, or came back without a
\* candidate) it returns null; when the prompt or the candidate was blocked
\* for policy reasons it returns a non-empty bracketed marker and not null
C15_FailuresBecomeNull ==
    reply.settled =>
        /\ ~reply.value.threw
        /\ reply.outcome = "failed" => reply.value.null
        /\ reply.outcome = "blocked" =>
               /\ ~reply.value.null
               /\ Len(reply.value.text) >= 2
               /\ Head(reply.value.text) = "["
               /\ reply.value.text[Len(reply.value.text)] \in {"]", ".]"}

\* ollamaService.chat has returned null after its backend call threw
C15_Witness ==
    /\ chatArgs.op = "ollamaChat"
    /\ request.sent
    /\ reply.settled
    /\ reply.outcome = "failed"
    /\ reply.value.null
    /\ ~reply.value.threw

----------------------------------------------------------------------------
(* Claims about splitMessage.                                              *)

\* C16: for every input string and every maximum length M >= 1, every chunk
\* splitMessage(text, M) returns has length at most M, inputs without a
\* newline or other break point included
C16_ChunksWithinMax ==
    splitDone => \A i \in DOMAIN chunks : Len(chunks[i]) <= maxLength

\* C17: for every non-empty input string splitMessage returns a non-empty
\* list, no returned chunk is empty or all white space, and when nothing of
\* the text survives the list is the single placeholder chunk
C17_NoBlankChunks ==
    (splitDone /\ splitText # <<>>) =>
        /\ chunks # <<>>
        /\ \A i \in DOMAIN chunks : Len(Trim(chunks[i])) > 0
        /\ Trim(splitText) = <<>> => chunks = <<Placeholder>>

\* a text longer than the limit and holding white space was cut into
\* several chunks
C17_Witness ==
    /\ splitDone
    /\ Len(splitText) > maxLength
    /\ \E i \in DOMAIN splitText : splitText[i] \in Whitespace
    /\ Len(chunks) >= 2

----------------------------------------------------------------------------
(* Claims about the segments and their delivery.                           *)

\* the texts the markers of a completion separate
MarkerPieces(string) == SplitByToken(string, 1, <<>>)

\* C18: a completion in which k markers separate k + 1 non-empty texts yields
\* exactly those k + 1 texts, trimmed and in order, as segments, punctuation
\* before a marker staying at the end of the preceding segment and the
\* markers gone ("a!" marker "a" yields ["a!", "a"]); when the marker split
\* yields no segment and the text is not blank, the whole text is the one
\* segment
C18_SegmentsInOrder ==
    deliverPc = "split" =>
        LET pieces == MarkerPieces(aiResponse)
        IN /\ (\A i \in DOMAIN pieces : Trim(pieces[i]) # <<>>)
                  => messageParts = [i \in DOMAIN pieces |-> Trim(pieces[i])]
           /\ aiResponse = <<"a", "!", Marker, "a">>
                  => messageParts = << <<"a", "!">>, <<"a">> >>
           /\ ((\A i \in DOMAIN pieces : Trim(pieces[i]) = <<>>)
                   /\ Trim(aiResponse) # <<>>)
                  => messageParts = <<Trim(aiResponse)>>

----------------------------------------------------------------------------
(* Claims about the delivery loop.                                         *)

\* the chunk sends and pauses the handler has made so far
LoopLog == SelectSeq(sends, LAMBDA s : s.kind \in {"chunk", "delay"})

\* the sends of one segment: its chunks in order, each a send of its own
SegmentSends(cfg, part) ==
    LET split == ProcessedChunks(cfg, part)
    IN [j \in DOMAIN split |-> SendOf("chunk", split[j])]

RECURSIVE LoopSchedule(_, _, _)
\* segment i and those after it, one pause between two consecutive segments
\* when a delay is configured
LoopSchedule(cfg, parts, i) ==
    IF i > Len(parts) THEN <<>>
    ELSE SegmentSends(cfg, parts[i])
         \o (IF i < Len(parts) /\ cfg.MESSAGE_SPLIT_DELAY_MS > 0
             THEN <<SendOf("delay", <<>>)>> ELSE <<>>)
         \o LoopSchedule(cfg, parts, i + 1)

IsPrefix(short, long) ==
    /\ Len(short) <= Len(long)
    /\ \A i \in DOMAIN short : short[i] = long[i]

\* the handler has returned and no send of the loop was rejected
Delivered ==
    /\ deliverPc = "done"
    /\ messageParts # <<>>
    /\ \A i \in DOMAIN sends : sends[i].kind # "error"

\* C19: for one completion the chunks go out segment by segment in order and,
\* within a segment, chunk by chunk, each chunk in a send of its own; the
\* loop pauses exactly once between two consecutive segments when a delay is
\* configured, never between two chunks of a segment and never after the last
\* segment.  At every moment what the loop has done is the beginning of that
\* schedule, and when the handler returns without a rejected send it is the
\* whole schedule.
C19_LoopOrder ==
    /\ IsPrefix(LoopLog, LoopSchedule(config, messageParts, 1))
    /\ Delivered => LoopLog = LoopSchedule(config, messageParts, 1)

\* two segments, one of them in two chunks, a pause between them, all sent
C19_Witness ==
    /\ Delivered
    /\ Len(messageParts) >= 2
    /\ config.MESSAGE_SPLIT_DELAY_MS > 0
    /\ \E i \in DOMAIN messageParts : Len(ProcessedChunks(config, messageParts[i])) >= 2
    /\ \E i \in DOMAIN sends : sends[i].kind = "delay"
    /\ Len(LoopLog) >= 4

\* the completion shows nothing: empty, whitespace only, or marker tokens only
NoVisibleContent(string) ==
    \A i \in DOMAIN string : string[i] \in Whitespace \cup {Marker}

\* a send that carries a message
CarriesMessage(s) == s.kind # "delay" /\ s.text # <<>>

\* a send of one of the handler's notices in place of the completion
IsFiller(s) == s.kind \in {"notice", "filler"}

\* the run of execute is over: it has returned, or the send of its catch
\* block was rejected
ExecuteOver == deliverPc \in {"done", "thrown"}

\* C20: for every accepted turn for which the provider returns a non-null
\* completion the handler's run ends, and by then at least one outbound message
\* has been sent; when the completion reduces to no visible content (empty,
\* whitespace only, or only marker tokens) a neutral notice is sent instead
\* of nothing.
C20_AlwaysAnswers ==
    /\ <>ExecuteOver
    /\ [](ExecuteOver =>
            /\ \E i \in DOMAIN sends : CarriesMessage(sends[i])
            /\ NoVisibleContent(aiResponse) =>
                   \E i \in DOMAIN sends : IsFiller(sends[i]))

\* a completion of marker tokens only has been answered with the filler
C20_Witness ==
    /\ deliverPc = "done"
    /\ aiResponse = <<Marker, Marker>>
    /\ messageParts = <<>>
    /\ sends = <<SendOf("filler", <<"... (No substantial response generated)">>)>>

----------------------------------------------------------------------------
(* Claims about the order of delivery and storage.                         *)

\* the exchange of the turn being handled is in the history store
ExchangeStored == MapHas(conversationHistory, turn.channelId)

\* every unit of the completion has gone out and no send was rejected
AllEmitted ==
    /\ deliverPc = "done"
    /\ \A i \in DOMAIN sends : sends[i].kind # "error"

\* C21: in a turn exchange the units of the completion are emitted first and
\* only afterwards are the user turn and the assistant turn appended to the
\* history and persisted, so that a failure while emitting leaves the history
\* without that exchange: whenever the exchange is in the store, every unit
\* has been emitted and none was rejected.
C21_EmitBeforeStore == ExchangeStored => AllEmitted

----------------------------------------------------------------------------
(* Claims about concurrent turns.                                          *)

\* where the user turn of the k-th event stands in its conversation's history,
\* 0 when it is not there
PairIndex(k) ==
    LET history == GetChannelHistory(conversationHistory, inbound[k].channelId)
        found == {i \in DOMAIN history : history[i] = UserTurnOf(k)}
    IN IF found = {} THEN 0 ELSE CHOOSE i \in found : TRUE

\* C22: for any two accepted inbound turns on the same conversation id, under
\* every interleaving of their provider calls, the turn pair of the event
\* observed earlier precedes the pair of the event observed later in that
\* conversation's history.
C22_PairsInEventOrder ==
    \A i, j \in DOMAIN inbound :
        (/\ i < j
         /\ inbound[i].channelId = inbound[j].channelId
         /\ PairIndex(i) > 0
         /\ PairIndex(j) > 0)
        => PairIndex(i) < PairIndex(j)

\* the run's generation has not finished
Generating(k) == inbound[k].pc = "chat"

\* C23: while an accepted inbound trigger from a user is outstanding (its
\* generation has not finished), every new trigger from that user is rejected
\* before any provider call, so a user never has two generations in flight at
\* once.
C23_OneGenerationPerUser ==
    \A i, j \in DOMAIN inbound :
        (i # j /\ inbound[i].author = inbound[j].author /\ Generating(i))
        => ~Generating(j)

----------------------------------------------------------------------------
(* Claims about the proactive scheduler and shutdown.                      *)

\* the scheduler is Running
Running == isProactiveMessagingActive

\* C24: startProactiveMessaging is a no-op (state and pending timer unchanged)
\* when proactive messaging is disabled, when the target list is empty, or
\* when the scheduler is already Running; otherwise it moves Stopped to
\* Running and schedules exactly one first-fire timer.
C24_StartContract ==
    [][schedLast'.op = "start" =>
          IF \/ ~config.ENABLE_PROACTIVE_MESSAGING
             \/ Len(config.PROACTIVE_TARGETS) = 0
             \/ Running
          THEN /\ isProactiveMessagingActive' = isProactiveMessagingActive
               /\ proactiveTimer' = proactiveTimer
               /\ pendingTimers' = pendingTimers
          ELSE /\ isProactiveMessagingActive'
               /\ proactiveTimer' = "pending"
               /\ Len(pendingTimers') = 1]_vars

\* the scheduler has been stopped and started again, with one timer pending
C24_Witness ==
    /\ schedLast = Step("start", FALSE, 0)
    /\ Running
    /\ fireCount >= 1
    /\ proactiveTimer = "pending"
    /\ Len(pendingTimers) = 1

\* C25: while the scheduler is Running, every fire is followed by the
\* scheduling of a next timer whatever the fire's outcome (sent, skipped,
\* generation failed, send failed, target not resolved), so that no failure
\* of a fire stops the scheduler: a running scheduler with no fire in flight
\* has a timer pending.
C25_FireAlwaysReschedules ==
    (Alive /\ Running /\ fires = <<>>) => pendingTimers # <<>>

\* C26: stopProactiveMessaging cancels any pending timer and moves the
\* scheduler to Stopped; after it has returned, in every interleaving, no
\* timer is pending, no proactive message is sent and no proactive turn is
\* appended until start is called again.
C26_StopIsFinal ==
    [][/\ schedLast'.op = "stop" => (~isProactiveMessagingActive' /\ pendingTimers' = <<>>)
       /\ (Alive /\ ~isProactiveMessagingActive /\ ~isProactiveMessagingActive') =>
              /\ pendingTimers' = <<>>
              /\ proactiveSends' = proactiveSends
              /\ conversationHistory' = conversationHistory]_vars

\* C27: with PROACTIVE_CHANCE = 0 every fire of the running scheduler sends
\* no message and appends nothing to the history, for every value the random
\* draw can take, and still schedules the next timer at an interval within
\* [min, max] minutes.
C27_ChanceZeroSkips ==
    config.PROACTIVE_CHANCE = 0 =>
        /\ proactiveSends = <<>>
        /\ conversationHistory \in {LoadHistory(f).map : f \in SchedFiles}
        /\ schedLast.op = "skipped" =>
               /\ pendingTimers # <<>>
               /\ \A k \in DOMAIN pendingTimers :
                      /\ pendingTimers[k] >= config.PROACTIVE_MIN_INTERVAL
                      /\ pendingTimers[k] <= config.PROACTIVE_MAX_INTERVAL

\* C28: on a non-skipped fire the proactive text is obtained through the
\* provider router: when the router is Active and the backend returns a
\* non-empty completion, the message sent to the target is that completion.
C28_TextFromRouter ==
    \A k \in DOMAIN proactiveSends :
        proactiveSends[k].routerActive =>
            /\ proactiveSends[k].routed
            /\ proactiveSends[k].completion # <<>> =>
                   proactiveSends[k].text = proactiveSends[k].completion

\* the target.send call of a fire
SendOfFire(id) ==
    proactiveSends[CHOOSE k \in DOMAIN proactiveSends : proactiveSends[k].fire = id]

\* C29: a proactive fire appends an assistant turn to the target's history
\* exactly when the outbound send succeeded, and the appended content is the
\* text that was sent; a fire that was skipped, whose target could not be
\* resolved, or whose send failed leaves every conversation's history
\* unchanged.
C29_AppendIffSent ==
    [][/\ schedLast'.op = "sent" =>
              LET s == SendOfFire(schedLast'.fire)
                  after == GetChannelHistory(conversationHistory', s.targetId)
              IN /\ conversationHistory' =
                        AddMessageToHistory(conversationHistory, maxHistorySize,
                                            s.targetId, ProactiveTurnOf(s.text))
                 /\ maxHistorySize # 0 =>
                        /\ after # <<>>
                        /\ after[Len(after)].role = "assistant"
                        /\ after[Len(after)].content = s.text
       /\ schedLast'.op \in {"fire", "unresolved", "skipped", "generating",
                             "sending", "unsent"} =>
              conversationHistory' = conversationHistory]_vars

\* a fire has sent its text and the text closes the target's history
C29_Witness ==
    /\ schedLast.op = "sent"
    /\ maxHistorySize = -1
    /\ LET s == SendOfFire(schedLast.fire)
           history == GetChannelHistory(conversationHistory, s.targetId)
       IN /\ history # <<>>
          /\ history[Len(history)] = ProactiveTurnOf(s.text)

\* C30: graceful shutdown cancels the periodic flush timer and the proactive
\* timer and performs one final synchronous flush, so that when the process
\* exits no timer is pending and, absent a write error, the history file
\* equals the in-memory mapping.
C30_ShutdownLeavesNothing ==
    pc = "exited" =>
        /\ ~saveIntervalId
        /\ pendingTimers = <<>>
        /\ last.saved # "failed" => FileHolds(file, conversationHistory)

\* the process was shut down while a fire was in flight and after another
\* had stored its text, and the final flush wrote the file
C30_Witness ==
    /\ pc = "exited"
    /\ config.ENABLE_PROACTIVE_MESSAGING
    /\ fires # <<>>
    /\ \E c \in DOMAIN conversationHistory :
           \E i \in DOMAIN conversationHistory[c] :
               conversationHistory[c][i] \in {ProactiveTurnOf(m) : m \in {<<"f1">>, <<"f2">>}}
    /\ last.saved = "written"

----------------------------------------------------------------------------
(* Claims about exceptions in the pipeline of a turn.                      *)

\* the sends of the catch block's notice
ErrorNotices == {i \in DOMAIN sends : sends[i].kind = "error"}

\* C31: an exception raised anywhere in the pipeline of an accepted turn is
\* caught by the handler and never propagates out of execute, and is answered
\* with exactly one generic notice: the run never ends by a throw, and a
\* run that went through the catch block has sent one notice, a run that did
\* not has sent none.
C31_CaughtAndAnswered ==
    /\ deliverPc # "thrown"
    /\ Cardinality(ErrorNotices) <= 1
    /\ deliverPc = "catch" => ErrorNotices = {}

----------------------------------------------------------------------------
(* Claims about the periodic flush timer.                                  *)

\* C32: startPeriodicSave creates no timer when the configured interval is
\* not positive; otherwise, after any sequence of startPeriodicSave and
\* stopPeriodicSave calls, at most one flush interval timer is live, and none
\* is live after stopPeriodicSave.
C32_AtMostOneFlushTimer ==
    /\ intervals <= 1
    /\ config.SAVE_INTERVAL_MS <= 0 => intervals = 0
    /\ schedLast.op \in {"startSave", "restartSave"} /\ config.SAVE_INTERVAL_MS > 0 =>
           intervals = 1
    /\ schedLast.op = "stopSave" => intervals = 0

\* startPeriodicSave was called while an interval was live, and one is live
C32_Witness ==
    /\ schedLast.op = "restartSave"
    /\ config.SAVE_INTERVAL_MS > 0
    /\ saveIntervalId
    /\ intervals = 1

----------------------------------------------------------------------------
(* Claims about the interval of the proactive timer.                       *)

\* C33: every interval drawn by scheduleNextProactiveMessage is a whole
\* number of minutes m with min <= m <= max, for every configured pair of
\* integers 0 <= min <= max (min = 0 and max = 0 included) and every value of
\* the random draw.
C33_IntervalWithinBounds ==
    \A k \in DOMAIN pendingTimers :
        /\ pendingTimers[k] \in Int
        /\ config.PROACTIVE_MIN_INTERVAL <= pendingTimers[k]
        /\ pendingTimers[k] <= config.PROACTIVE_MAX_INTERVAL

----------------------------------------------------------------------------
(* Claims about the provider's failure sentinel.                           *)

\* the provider has answered the turn with null
NullAnswered == deliverPc # "chat" /\ aiResponse = <<>>

\* C34: when the provider returns the failure sentinel (null) for an accepted
\* turn, the handler sends one user-visible notice and leaves the history
\* store unchanged: neither the user turn nor an assistant turn is appended
\* and no flush is triggered.  No step of such a run changes the history, the
\* file or the record of the last save, and a run that returns without a
\* rejected send has sent the notice and nothing else.
C34_NullLeavesHistory ==
    /\ [][(aiResponse' = <<>> /\ deliverPc' # "chat") =>
              /\ conversationHistory' = conversationHistory
              /\ file' = file
              /\ last' = last]_vars
    /\ [](NullAnswered /\ deliverPc = "done" /\ ErrorNotices = {} =>
              /\ Len(sends) = 1
              /\ sends[1].kind = "notice")

\* a null answer has been met with the notice alone
C34_Witness ==
    /\ NullAnswered
    /\ deliverPc = "done"
    /\ Len(sends) = 1
    /\ sends[1].kind = "notice"
    /\ conversationHistory = EmptyMap
    /\ file = MissingFile

----------------------------------------------------------------------------
(* Claims about what the delivery loop hands to the platform.              *)

\* C35: every string passed to the platform's outbound send during the
\* delivery of a completion is non-empty after trimming, also when emoji
\* filtering (ALLOW_EMOJIS = false) is applied to a chunk after size chunking.
C35_NoEmptySend ==
    \A i \in DOMAIN sends :
        sends[i].kind # "delay" => Trim(sends[i].text) # <<>>

----------------------------------------------------------------------------
(* Claims about the number of proactive timers.                            *)

\* C36: at most one proactive timer is pending in every reachable state,
\* under any interleaving of start, stop and timer fires; and whenever the
\* scheduler is Running with no fire in progress, exactly one timer is
\* pending.
C36_OneTimerWhileRunning ==
    /\ Len(pendingTimers) <= 1
    /\ (Alive /\ Running /\ fires = <<>>) => Len(pendingTimers) = 1

\* the first half of C36 alone: never more than one timer
AtMostOneTimer == Len(pendingTimers) <= 1

----------------------------------------------------------------------------
(* Claims about the atomicity of an exchange.                              *)

\* the turn at place i of a history is the user turn of an event and the
\* assistant turn of the same event follows it at once
FollowedByOwnAnswer(history, i) ==
    /\ i < Len(history)
    /\ \E k \in 1 .. MaxEvents :
           /\ history[i] = UserTurnOf(k)
           /\ history[i + 1] = AssistantTurnOf(k)

\* C37: under any interleaving of concurrent runs of the handler and
\* proactive fires on the same conversation id, the user turn and the
\* assistant turn of one exchange are appended back to back, with no turn of
\* another exchange or of a proactive fire between them: a stored user turn
\* is always immediately followed by its own assistant turn (before pruning).
C37_ExchangeAtomic ==
    \A c \in DOMAIN conversationHistory :
        \A i \in DOMAIN conversationHistory[c] :
            conversationHistory[c][i].role = "user" =>
                FollowedByOwnAnswer(conversationHistory[c], i)

\* two runs on a conversation overlapped, the later event's exchange was
\* stored first, and a proactive turn stands between the two exchanges
C37_Witness ==
    \E i, j \in DOMAIN inbound :
        /\ i < j
        /\ inbound[i].channelId = inbound[j].channelId
        /\ PairIndex(j) > 0
        /\ PairIndex(i) = PairIndex(j) + 3
        /\ conversationHistory[inbound[i].channelId][PairIndex(j) + 2] = ProactiveTurn

----------------------------------------------------------------------------
(* Claims about the request window.                                        *)

\* the window without its system turn
ConversationTurns(window) ==
    IF window # <<>> /\ window[1].role = "system" THEN Tail(window) ELSE window

\* the stored turns of a window: its conversation turns but the last
StoredTurns(window) ==
    SubSeq(ConversationTurns(window), 1, Len(ConversationTurns(window)) - 1)

IsSuffix(short, long) ==
    /\ Len(short) <= Len(long)
    /\ short = SubSeq(long, Len(long) - Len(short) + 1, Len(long))

\* C38: the turn sequence sent to the provider for an inbound turn is the
\* optional system turn, then a suffix of the stored history, then the new
\* user turn last; under Bounded(N) it holds at most N-1 stored turns (at
\* most N conversation turns in all), under OneShot only the new turn, and
\* under Unbounded the whole stored history.
C38_RequestWindow ==
    chatArgs.op = "chat" =>
        LET window == chatArgs.messages
            turns == ConversationTurns(window)
            stored == StoredTurns(window)
            history == GetChannelHistory(conversationHistory, chatArgs.channelId)
        IN /\ turns # <<>>
           /\ turns[Len(turns)] = NewUserTurn
           /\ \A i \in DOMAIN turns : turns[i].role # "system"
           /\ IsSuffix(stored, history)
           /\ maxHistorySize > 0 =>
                  /\ Len(stored) <= maxHistorySize - 1
                  /\ Len(turns) <= maxHistorySize
                  /\ Len(stored) = Min(Len(history), maxHistorySize - 1)
           /\ maxHistorySize = 0 => turns = <<NewUserTurn>>
           /\ maxHistorySize = -1 => stored = history

\* under Bounded(2) a stored history of two turns was cut to its last turn,
\* behind the system turn
C38_Witness ==
    /\ chatArgs.op = "chat"
    /\ maxHistorySize = 2
    /\ Len(GetChannelHistory(conversationHistory, chatArgs.channelId)) = 2
    /\ Len(chatArgs.messages) = 3
    /\ chatArgs.messages[1].role = "system"
    /\ chatArgs.messages[2] =
           GetChannelHistory(conversationHistory, chatArgs.channelId)[2]

----------------------------------------------------------------------------
(* Claims about the content of the chunks.                                 *)

\* the chunks one after the other
RECURSIVE JoinChunks(_)
JoinChunks(list) ==
    IF list = <<>> THEN <<>> ELSE Head(list) \o JoinChunks(Tail(list))

\* the characters of a string that are not white space, in order
NonWhitespace(string) == SelectSeq(string, LAMBDA c : c \notin Whitespace)

\* C39: splitMessage adds no characters to the text: for every input whose
\* length is at most the maximum and that has no leading or trailing white
\* space the result is the single chunk equal to the input (inputs holding
\* newlines included), and in general the chunks concatenated in order hold
\* exactly the input's non-whitespace characters in order.
C39_ContentPreserved ==
    splitDone =>
        /\ (Len(splitText) <= maxLength /\ Trim(splitText) = splitText) =>
               chunks = <<splitText>>
        /\ NonWhitespace(JoinChunks(chunks)) = NonWhitespace(splitText)

\* the claim for the texts that hold a character other than white space
ContentPreservedForVisibleText ==
    (splitDone /\ NonWhitespace(splitText) # <<>>) =>
        /\ (Len(splitText) <= maxLength /\ Trim(splitText) = splitText) =>
               chunks = <<splitText>>
        /\ NonWhitespace(JoinChunks(chunks)) = NonWhitespace(splitText)

====
